---- MODULE Spec2Model ----
(***************************************************************************)
(* Model of utils/agent_runtime.py: run_agent_interaction and the poll     *)
(* loop _poll_run_with_tools, driven against a nondeterministic remote     *)
(* agent service.  Every invocation of run_agent_interaction is a process  *)
(* p; its Python locals are the components [p] of the variables below.     *)
(* log[p] records, in call order, every call the invocation makes on the   *)
(* client, the tool handler, the post-run hook and time.sleep.             *)
(***************************************************************************)
EXTENDS Integers, Sequences, FiniteSets, TLC

VARIABLES
    pc,        \* pc[p]: position of invocation p in run_agent_interaction / _poll_run_with_tools
    args,      \* args[p]: keyword arguments of run_agent_interaction
    client,    \* client[p]: "unopened" | "open" | "closed" (project_client_context)
    agent,     \* agent[p]: local `agent`
    thread,    \* thread[p]: local `thread`
    run,       \* run[p]: local `run` of run_agent_interaction
    frame,     \* frame[p]: parameters and locals of _poll_run_with_tools
    messages,  \* messages[p]: local `messages`
    result,    \* result[p]: local `result` (AgentRunResult)
    raised,    \* raised[p]: exception propagating out of the invocation, or "None"
    log,       \* log[p]: calls made so far, oldest first
    remoteSeq,     \* remote service: last id handed out
    remoteAgents,  \* remote service: ids of the agents that exist
    remoteThreads, \* remote service: thread id -> messages of the thread
    tool,      \* one call of a tool function: its arguments, the provider's answer, its outcome
    script     \* one run of a program of the repository started from the shell

vars == <<pc, args, client, agent, thread, run, frame, messages, result,
          raised, log, remoteSeq, remoteAgents, remoteThreads, tool, script>>

----------------------------------------------------------------------------
(* Bounds *)

\* largest number of runs.get calls one poll loop makes in the model
MaxPolls == 3

\* invocations of run_agent_interaction the model has room for
Invocations == {1, 2}

----------------------------------------------------------------------------
(* Values *)

None == "None"
NoAttr == "<no attribute>"

\* the statuses with which the service ends a run
FinalStatuses == {"completed", "failed", "cancelled", "expired"}

\* a plausible slip: the set misses one of the service's final statuses
TerminalStatusesWithoutExpired == {"completed", "failed", "cancelled"}

TerminalStatuses == {"completed", "failed", "cancelled", "expired"}

PollingStatuses == {"queued", "in_progress"}

\* statuses a snapshot returned by the service can carry: the documented
\* ones, one the loop does not know, and a snapshot without the attribute
SnapshotStatuses ==
    FinalStatuses \cup {"queued", "in_progress", "requires_action", "cancelling", NoAttr}

UserInputs == {"", " ", "Hello"}
Handlers == {None, "handler_a", "handler_b"}
Hooks == {None, "hook"}
PollIntervals == {1, 2}

ToolCall(id) == [id |-> id, type |-> "function"]
PendingLists == {<<ToolCall("call-1")>>, <<ToolCall("call-1"), ToolCall("call-2")>>}

\* the required_action attribute of a snapshot: absent, or a pending list
RequiredActions ==
    {[has |-> FALSE, tool_calls |-> <<>>]}
        \cup {[has |-> TRUE, tool_calls |-> l] : l \in PendingLists}

ToolOutput(id, out) == [tool_call_id |-> id, output |-> out]
\* what a caller-supplied handler may return
HandlerReturns == {<<>>, <<ToolOutput("call-1", "42")>>}

ArgSets ==
    [user_input : UserInputs,
     additional_instructions : {None},
     handle_tool_calls : Handlers,
     poll_interval_seconds : PollIntervals,
     post_run_hook : Hooks,
     auto_delete_agent : BOOLEAN]

AgentConfig == [name |-> "test-agent", instructions |-> "Follow the user input exactly.",
                tools |-> <<>>, model_deployment |-> "test-model"]

NoObject == [id |-> 0]
NoAgent == [id |-> 0, name |-> ""]
NoRun == [id |-> 0, status |-> NoAttr, required_action |-> [has |-> FALSE, tool_calls |-> <<>>]]
NoFrame == [thread_id |-> 0, run_id |-> 0, handle_tool_calls |-> None, poll_interval |-> 0,
            run |-> NoRun, status |-> "", tool_calls |-> <<>>, outputs |-> <<>>]
NoResult == [agent_id |-> 0, agent_name |-> "", thread_id |-> 0, run_id |-> 0,
             run_status |-> "", messages |-> <<>>]

Event(op, arg, ok) == [op |-> op, arg |-> arg, ok |-> ok]

----------------------------------------------------------------------------
(* Pure helpers *)

\* a plausible slip: the default of the getattr is left out, so a snapshot
\* without a status yields no "unknown"
GetStatusWithoutDefault(r) == r.status

\* getattr(run, "status", "unknown")
GetStatus(r) == IF r.status = NoAttr THEN "unknown" ELSE r.status

\* the getattr chain that extracts the pending tool calls of a snapshot
GetToolCalls(r) == IF r.required_action.has THEN r.required_action.tool_calls ELSE <<>>

\* a plausible slip: only a missing input is rejected, and a str never is missing
NotStrNever(s) == FALSE

\* `not user_input` for a str
NotStr(s) == s = ""

\* a plausible slip: the emptiness check is left out
NotListNever(l) == FALSE

\* `not outputs` for the list a handler returns
NotList(l) == l = <<>>

\* truthiness of an optional callable (handle_tool_calls, post_run_hook)
Supplied(f) == f # None

\* a plausible slip: a status the loop does not know ends the loop
PollBranchUnknownReturns(status) ==
    IF status \in TerminalStatuses THEN "return"
    ELSE IF status = "requires_action" THEN "poll_handle"
    ELSE IF status \in PollingStatuses THEN "poll_sleep"
    ELSE "return"

\* the branch the poll loop takes on a fetched status
PollBranch(status) ==
    IF status \in TerminalStatuses THEN "return"
    ELSE IF status = "requires_action" THEN "poll_handle"
    ELSE IF status \in PollingStatuses THEN "poll_sleep"
    ELSE "poll_sleep"

\* AgentRunResult(...) as assembled after the run
AgentRunResult(a, t, r, m) ==
    [agent_id |-> a.id, agent_name |-> a.name, thread_id |-> t.id, run_id |-> r.id,
     run_status |-> GetStatus(r), messages |-> m]

Gets(p) == {i \in 1..Len(log[p]) : log[p][i].op = "runs.get"}


----------------------------------------------------------------------------
(* Strings: str methods and format specifications the tool functions use *)

Lowers == "abcdefghijklmnopqrstuvwxyz"
Uppers == "ABCDEFGHIJKLMNOPQRSTUVWXYZ"

Char(s, i) == SubSeq(s, i, i)

\* position of the one-character string c in alphabet, 0 if it is not there
IndexIn(c, alphabet) ==
    IF \E i \in 1..Len(alphabet) : Char(alphabet, i) = c
      THEN CHOOSE i \in 1..Len(alphabet) : Char(alphabet, i) = c
      ELSE 0

IsCased(c) == IndexIn(c, Lowers) > 0 \/ IndexIn(c, Uppers) > 0

UpperChar(c) == IF IndexIn(c, Lowers) > 0 THEN Char(Uppers, IndexIn(c, Lowers)) ELSE c

LowerChar(c) == IF IndexIn(c, Uppers) > 0 THEN Char(Lowers, IndexIn(c, Uppers)) ELSE c

\* str.title(): a cased character is upper-cased after an uncased one (or
\* at the start) and lower-cased after a cased one
RECURSIVE TitleFrom(_, _)
TitleFrom(s, i) ==
    IF i > Len(s) THEN ""
    ELSE LET c == Char(s, i)
             afterCased == i > 1 /\ IsCased(Char(s, i - 1))
         IN (IF afterCased THEN LowerChar(c) ELSE UpperChar(c)) \o TitleFrom(s, i + 1)

Title(s) == TitleFrom(s, 1)

\* sep.join(parts) for a sequence of strings
RECURSIVE Join(_, _)
Join(sep, parts) ==
    IF parts = <<>> THEN ""
    ELSE IF Len(parts) = 1 THEN parts[1]
    ELSE parts[1] \o sep \o Join(sep, Tail(parts))

\* the elements of a sequence of strings that are truthy
RECURSIVE Truthy(_)
Truthy(parts) ==
    IF parts = <<>> THEN <<>>
    ELSE IF parts[1] = "" THEN Truthy(Tail(parts))
    ELSE <<parts[1]>> \o Truthy(Tail(parts))

Abs(n) == IF n < 0 THEN -n ELSE n

\* a JSON number: an int, or a float given in tenths; JNone is null or a missing key
JInt(v) == [t |-> "int", v |-> v]
JFloat(tenths) == [t |-> "float", v |-> tenths]
JBadNumber == [t |-> "str", v |-> 0]
JNone == [t |-> "null", v |-> 0]

\* a plausible slip: the number is formatted without the .1f
Format1fPlain(x) ==
    IF x.t = "int" THEN ToString(x.v)
    ELSE (IF x.v < 0 THEN "-" ELSE "") \o ToString(Abs(x.v) \div 10) \o "."
            \o ToString(Abs(x.v) % 10)

\* f"{float(x):.1f}"
Format1f(x) ==
    IF x.t = "int" THEN ToString(x.v) \o ".0"
    ELSE (IF x.v < 0 THEN "-" ELSE "") \o ToString(Abs(x.v) \div 10) \o "."
            \o ToString(Abs(x.v) % 10)

\* int(x): a float is truncated towards zero
IntOf(x) ==
    IF x.t = "int" THEN x.v
    ELSE IF x.v < 0 THEN -(Abs(x.v) \div 10) ELSE x.v \div 10

----------------------------------------------------------------------------
(* agents/weather_agent.py: the weather tool function *)

\* what requests.get / raise_for_status / response.json() produce
ProviderFailure(kind, text) == [kind |-> kind, text |-> text]

JAbsent == [t |-> "absent"]

\* payload["error"]
ErrorObject(code, info) == [t |-> "object", code |-> code, info |-> info]
\* payload["location"]
LocationObject(name, localtime, country) ==
    [t |-> "object", name |-> name, localtime |-> localtime, country |-> country]
\* current["weather_descriptions"]
Descriptions(list) == [t |-> "list", v |-> list]
NumberDescriptions == [t |-> "numbers", v |-> <<>>]
NoDescriptions == [t |-> "null", v |-> <<>>]
\* payload["current"]
CurrentObject(temperature, humidity, descriptions) ==
    [t |-> "object", temperature |-> temperature, humidity |-> humidity,
     weather_descriptions |-> descriptions]
\* {}
EmptyObject == [t |-> "empty"]
\* a JSON body that is an object
Payload(error, location, current) ==
    [kind |-> "json", t |-> "object", error |-> error, location |-> location,
     current |-> current]
\* a JSON body that is not an object
NonObjectBody(t) == [kind |-> "json", t |-> t]

\* the result of a call: the returned string, or the exception that escaped
Returns(v) == [raised |-> None, value |-> v]
Raises(exc) == [raised |-> exc, value |-> ""]

\* _extract_condition, for a list of strings (None entries count as "")
ExtractCondition(descriptions) ==
    IF descriptions.t = "null" \/ descriptions.v = <<>> THEN "Unknown conditions"
    ELSE IF Join(", ", Truthy(descriptions.v)) = "" THEN "Unknown conditions"
    ELSE Join(", ", Truthy(descriptions.v))

\* WeatherReport.serialize
Serialize(location, temperature_c, condition, humidity_pct, date) ==
    "Weather for " \o location \o (IF date # None THEN " on " \o date ELSE "") \o ": "
        \o Format1f(temperature_c) \o "°C, " \o condition \o ", humidity "
        \o ToString(humidity_pct) \o "%"

\* `d.get(key) or default` for a string-valued key
GetOr(v, default) == IF v = NoAttr \/ v = "" THEN default ELSE v

\* d.get(key, default) for a string-valued key
GetDefault(v, default) == IF v = NoAttr THEN default ELSE v

\* get_weatherstack_weather from `location_data = ...` on: payload is a dict
\* without a truthy "error"
WeatherReportFor(location, date, payload) ==
    LET location_data == payload.location
        current == payload.current
    IN  IF current.t = "absent" \/ current.t = "empty"
          THEN Returns("Weather service returned no current conditions for that query.")
        ELSE IF current.t # "object" THEN Raises("AttributeError")
        ELSE IF current.weather_descriptions.t = "numbers" THEN Raises("TypeError")
        ELSE IF current.temperature.t = "null" \/ current.humidity.t = "null"
          THEN Returns("Weather service response was missing temperature or humidity data.")
        ELSE IF location_data.t = "str" THEN Raises("AttributeError")
        ELSE IF current.temperature.t = "str" THEN Raises("ValueError")
        ELSE IF current.humidity.t = "str" THEN Raises("ValueError")
        ELSE
          LET name == IF location_data.t = "object" THEN location_data.name ELSE NoAttr
              localtime == IF location_data.t = "object" THEN location_data.localtime ELSE NoAttr
              country == IF location_data.t = "object" THEN location_data.country ELSE NoAttr
              reported_date == IF date # None /\ date # "" THEN date ELSE GetOr(localtime, None)
              summary == Serialize(GetOr(name, Title(location)), current.temperature,
                                   ExtractCondition(current.weather_descriptions),
                                   IntOf(current.humidity), reported_date)
              fallback == IF date # None /\ date # ""
                            THEN <<"Historical dates are not supported on this plan; returning the latest conditions instead.">>
                            ELSE <<>>
              extra_bits == fallback \o <<"Data source: Weatherstack live API.">>
                              \o (IF GetOr(country, None) # None
                                    THEN <<"Country: " \o country>> ELSE <<>>)
          IN Returns(summary \o ". " \o Join(" ", extra_bits))

\* `not location`
MissingLocation(location) == location = "" \/ location = None

\* get_weatherstack_weather(location, date), given what the provider answers
get_weatherstack_weather(location, date, provider) ==
    IF MissingLocation(location) THEN Returns("Missing location.")
    ELSE IF provider.kind = "request_exception"
      THEN Returns("Weather service request failed: " \o provider.text)
    ELSE IF provider.kind = "unreadable"
      THEN Returns("Weather service returned an unreadable response.")
    ELSE IF provider.t # "object" THEN Raises("AttributeError")
    ELSE IF provider.error.t = "str" THEN Raises("AttributeError")
    ELSE IF provider.error.t = "object"
      THEN Returns("Weather service error (" \o GetDefault(provider.error.code, "unknown")
                     \o "): "
                     \o GetDefault(provider.error.info, "Unknown error from Weatherstack."))
    ELSE WeatherReportFor(location, date, provider)

----------------------------------------------------------------------------
(* stock_market_agent.py: the stock price tool function *)

Digits == "0123456789"

DEFAULT_INTERVAL == "5min"
VALID_INTERVALS == {"1min", "5min", "15min", "30min", "60min"}

\* KNOWN_COMPANIES.get(name), None for an unknown name
KNOWN_COMPANIES(name) ==
    CASE name = "apple" -> "AAPL"
      [] name = "microsoft" -> "MSFT"
      [] name = "google" -> "GOOGL"
      [] name = "alphabet" -> "GOOGL"
      [] name = "amazon" -> "AMZN"
      [] name = "tesla" -> "TSLA"
      [] name = "meta" -> "META"
      [] name = "nvidia" -> "NVDA"
      [] name = "ibm" -> "IBM"
      [] OTHER -> None

RECURSIVE MapChars(_, _, _)
\* s with every character upper-cased (up = TRUE) or lower-cased
MapChars(s, i, up) ==
    IF i > Len(s) THEN ""
    ELSE (IF up THEN UpperChar(Char(s, i)) ELSE LowerChar(Char(s, i))) \o MapChars(s, i + 1, up)

UpperStr(s) == MapChars(s, 1, TRUE)
LowerStr(s) == MapChars(s, 1, FALSE)

RECURSIVE StripLeft(_)
StripLeft(s) == IF s # "" /\ Char(s, 1) = " " THEN StripLeft(Tail(s)) ELSE s

RECURSIVE StripRight(_)
StripRight(s) ==
    IF s # "" /\ Char(s, Len(s)) = " " THEN StripRight(SubSeq(s, 1, Len(s) - 1)) ELSE s

\* str.strip()
Strip(s) == StripRight(StripLeft(s))

\* s.replace(".", "").isalnum(): at least one character besides dots, and
\* all of them letters or digits
IsAlnumWithoutDots(s) ==
    /\ \E i \in 1..Len(s) : Char(s, i) # "."
    /\ \A i \in 1..Len(s) :
          Char(s, i) = "." \/ IsCased(Char(s, i)) \/ IndexIn(Char(s, i), Digits) > 0

\* _resolve_symbol(company, symbol)
ResolveSymbol(company, symbol) ==
    IF symbol # None /\ symbol # "" THEN UpperStr(Strip(symbol))
    ELSE IF company = None \/ company = "" THEN None
    ELSE IF LowerStr(Strip(company)) = "" THEN None
    ELSE IF KNOWN_COMPANIES(LowerStr(Strip(company))) # None
      THEN KNOWN_COMPANIES(LowerStr(Strip(company)))
    ELSE IF /\ 1 <= Len(UpperStr(Strip(company)))
            /\ Len(UpperStr(Strip(company))) <= 6
            /\ IsAlnumWithoutDots(UpperStr(Strip(company)))
      THEN UpperStr(Strip(company))
    ELSE None

\* a field of the latest intraday record: a numeric string (a price in
\* cents, the volume as it is), a string that is not a number, null, or a
\* missing key
Price(cents) == [t |-> "num", v |-> cents]
BadPrice == [t |-> "bad", v |-> 0]
NullPrice == [t |-> "null", v |-> 0]
MissingPrice == [t |-> "missing", v |-> 0]

IntradayRecord(open, close, volume) ==
    [t |-> "object", open |-> open, high |-> Price(200), low |-> Price(50),
     close |-> close, volume |-> volume]
\* data[series_key]: timestamps in increasing order, and the record of the latest
Series(timestamps, latest_record) ==
    [t |-> "object", timestamps |-> timestamps, latest_record |-> latest_record]
\* a JSON object body: the key that starts with "Time Series" (or NoAttr),
\* the first truthy one of Note / Information / Error Message (or NoAttr),
\* and the value under the series key
StockData(series_key, diagnostic, series) ==
    [kind |-> "json", t |-> "object", series_key |-> series_key,
     diagnostic |-> diagnostic, series |-> series]

TwoDigits(n) == IF n < 10 THEN "0" \o ToString(n) ELSE ToString(n)
ThreeDigits(n) == IF n < 10 THEN "00" \o ToString(n)
                  ELSE IF n < 100 THEN "0" \o ToString(n) ELSE ToString(n)

\* f"{x:.2f}" for a non-negative amount given in cents
Format2f(cents) == ToString(cents \div 100) \o "." \o TwoDigits(cents % 100)

\* f"{n:,}" for a non-negative int
RECURSIVE FormatThousands(_)
FormatThousands(n) ==
    IF n < 1000 THEN ToString(n)
    ELSE FormatThousands(n \div 1000) \o "," \o ThreeDigits(n % 1000)

\* the first field of the record whose conversion fails, in the order the
\* code converts them
FirstOdd(record) ==
    LET fields == <<record.open, record.high, record.low, record.close, record.volume>>
        odd == {i \in 1..5 : fields[i].t # "num"}
    IN IF odd = {} THEN Price(0) ELSE fields[CHOOSE i \in odd : \A j \in odd : i <= j]

FieldName(record) ==
    LET fields == <<record.open, record.high, record.low, record.close, record.volume>>
        names == <<"1. open", "2. high", "3. low", "4. close", "5. volume">>
        odd == {i \in 1..5 : fields[i].t # "num"}
    IN IF odd = {} THEN "" ELSE names[CHOOSE i \in odd : \A j \in odd : i <= j]

\* fetch_intraday_stock_price from `series_key = ...` on: data is the decoded body
StockReportFor(company, resolved_symbol, chosen_interval, data) ==
    IF data.t = "null" THEN Raises("TypeError")
    ELSE IF data.t = "array" THEN Raises("AttributeError")
    ELSE IF data.series_key = NoAttr
      THEN IF data.diagnostic # NoAttr
             THEN Returns("Alpha Vantage did not return intraday data: " \o data.diagnostic)
             ELSE Returns("Alpha Vantage response did not include intraday time series data.")
    ELSE IF data.series.t = "empty"
      THEN Returns("Alpha Vantage returned an empty time series for that ticker.")
    ELSE IF data.series.t = "str" THEN Raises("AttributeError")
    ELSE
      LET latest_timestamp == data.series.timestamps[Len(data.series.timestamps)]
          latest_record == data.series.latest_record
      IN IF latest_record.t = "str" THEN Raises("TypeError")
         ELSE IF FirstOdd(latest_record).t = "missing"
           THEN Returns("Failed to parse intraday record: '" \o FieldName(latest_record) \o "'")
         ELSE IF FirstOdd(latest_record).t = "bad"
           THEN Returns("Failed to parse intraday record: could not convert string to float: 'n/a'")
         ELSE IF FirstOdd(latest_record).t = "null" THEN Raises("TypeError")
         ELSE Returns("Latest " \o chosen_interval \o " price for "
                  \o (IF company # None /\ company # "" THEN company ELSE resolved_symbol)
                  \o " (" \o resolved_symbol \o ") at " \o latest_timestamp
                  \o " is $" \o Format2f(latest_record.close.v)
                  \o " USD (open " \o Format2f(latest_record.open.v)
                  \o ", high " \o Format2f(latest_record.high.v)
                  \o ", low " \o Format2f(latest_record.low.v)
                  \o ", volume " \o FormatThousands(latest_record.volume.v)
                  \o "). Data via Alpha Vantage.")

\* fetch_intraday_stock_price(company, symbol, interval), given the module's
\* ALPHAVANTAGE_API_KEY and what the provider answers
fetch_intraday_stock_price(company, symbol, interval, api_key, provider) ==
    IF api_key = None \/ api_key = ""
      THEN Returns("Missing ALPHAVANTAGE_API_KEY environment variable.")
    ELSE IF ResolveSymbol(company, symbol) = None \/ ResolveSymbol(company, symbol) = ""
      THEN Returns("Unable to determine a ticker symbol from the provided company or symbol. "
                     \o "Please specify the exchange ticker (e.g., AAPL).")
    ELSE IF provider.kind = "request_exception"
      THEN Returns("Failed to reach Alpha Vantage: " \o provider.text)
    ELSE IF provider.kind = "invalid_json_error"
      THEN Returns("Failed to reach Alpha Vantage: " \o provider.text)
    ELSE IF provider.kind = "unreadable"
      THEN Returns("Alpha Vantage returned a non-JSON response.")
    ELSE StockReportFor(company, ResolveSymbol(company, symbol),
                        IF interval \in VALID_INTERVALS THEN interval ELSE DEFAULT_INTERVAL,
                        provider)

----------------------------------------------------------------------------
(* agents/weather_agent.py: the tool call handler *)

\* the handler weather_agent.run passes to run_agent_interaction
WeatherHandler == "_handle_tool_calls"

\* a pending tool call; NoAttr stands for an attribute the object lacks
\* (name: no `function`, or a function without a name)
FunctionCall(id, type, name, arguments) ==
    [id |-> id, type |-> type, name |-> name, arguments |-> arguments]

\* a decoded JSON document, as far as the handler looks at it: an object
\* with its "location" and "date" members (NoAttr: no such member), another
\* JSON value, or the JSONDecodeError of a text that is not JSON
JsonObject(location, date) == [t |-> "object", location |-> location, date |-> date]
JsonOther(t) == [t |-> t, location |-> NoAttr, date |-> NoAttr]

\* json.loads(text) for the argument texts of the model
JsonLoads(text) ==
    CASE text = "{\"location\": \"Seattle\", \"date\": \"2025-05-01\"}"
            -> JsonObject("Seattle", "2025-05-01")
      [] text = "{\"location\": \"seattle\"}" -> JsonObject("seattle", NoAttr)
      [] text = "{\"date\": \"2025-05-01\"}" -> JsonObject(NoAttr, "2025-05-01")
      [] text = "{}" -> JsonObject(NoAttr, NoAttr)
      [] text = "[]" -> JsonOther("array")
      [] text = "null" -> JsonOther("null")
      [] OTHER -> JsonOther("JSONDecodeError")

\* a plausible slip: every call of type "function" is dispatched, whatever its name
DispatchedAnyFunction(call) == GetDefault(call.type, "") = "function"

\* the two `continue` tests of the handler, negated
Dispatched(call) ==
    /\ GetDefault(call.type, "") = "function"
    /\ call.name # NoAttr
    /\ call.name = "get_weatherstack_weather"

\* a plausible slip: the JSONDecodeError is not caught
DecodeArgumentsUncaught(call) ==
    JsonLoads(IF call.arguments = NoAttr \/ call.arguments = "" THEN "{}" ELSE call.arguments)

\* try: arguments = json.loads(getattr(func, "arguments", "") or "{}")
\* except json.JSONDecodeError: arguments = {}
DecodeArguments(call) ==
    LET parsed == JsonLoads(IF call.arguments = NoAttr \/ call.arguments = ""
                              THEN "{}" ELSE call.arguments)
    IN IF parsed.t = "JSONDecodeError" THEN JsonObject(NoAttr, NoAttr) ELSE parsed

\* what the handler did with one pending call
Skipped(i) ==
    [index |-> i, did |-> "skipped", location |-> "", date |-> None, requested |-> FALSE,
     result |-> Returns("")]
ArgumentsRaised(i, exc) ==
    [index |-> i, did |-> "raised", location |-> "", date |-> None, requested |-> FALSE,
     result |-> Raises(exc)]
Invoked(i, location, date, outcome) ==
    [index |-> i, did |-> "invoked", location |-> location, date |-> date,
     requested |-> ~MissingLocation(location), result |-> outcome]

\* one pass of the handler's loop body, for the call at position i
HandleCall(tool_calls, i, provider) ==
    LET call == tool_calls[i]
        arguments == DecodeArguments(call)
    IN IF ~Dispatched(call) THEN Skipped(i)
       ELSE IF arguments.t = "JSONDecodeError" THEN ArgumentsRaised(i, "JSONDecodeError")
       ELSE IF arguments.t # "object" THEN ArgumentsRaised(i, "AttributeError")
       ELSE Invoked(i, GetDefault(arguments.location, ""), GetDefault(arguments.date, None),
                    get_weatherstack_weather(GetDefault(arguments.location, ""),
                                             GetDefault(arguments.date, None), provider))

\* the handler's loop from position i on; acc is what it has built so far
RECURSIVE HandleFrom(_, _, _, _)
HandleFrom(tool_calls, i, provider, acc) ==
    IF i > Len(tool_calls) THEN acc
    ELSE LET step == HandleCall(tool_calls, i, provider)
             seen == [acc EXCEPT !.trace = Append(@, step)]
         IN IF step.did = "skipped" THEN HandleFrom(tool_calls, i + 1, provider, seen)
            ELSE IF step.result.raised # None
              THEN [seen EXCEPT !.raised = step.result.raised, !.outputs = <<>>]
            ELSE HandleFrom(tool_calls, i + 1, provider,
                            [seen EXCEPT !.outputs =
                                Append(@, ToolOutput(GetDefault(tool_calls[i].id, ""),
                                                     step.result.value))])

\* _handle_tool_calls(project_client, tool_calls): the exception that escaped
\* (or None), the returned outputs, and what was done with each call
HandleToolCalls(tool_calls, provider) ==
    HandleFrom(tool_calls, 1, provider, [raised |-> None, outputs |-> <<>>, trace |-> <<>>])

SeattleArguments == "{\"location\": \"Seattle\", \"date\": \"2025-05-01\"}"

WeatherCalls ==
    [k1 |-> FunctionCall("call-1", "function", "get_weatherstack_weather", SeattleArguments),
     k2 |-> FunctionCall("call-2", "function", "get_weatherstack_weather", "{bad"),
     k3 |-> FunctionCall("call-3", "code_interpreter", NoAttr, NoAttr),
     k4 |-> FunctionCall("call-4", "function", "other", "{}"),
     k5 |-> FunctionCall(NoAttr, "function", "get_weatherstack_weather",
                         "{\"location\": \"seattle\"}"),
     k6 |-> FunctionCall("call-6", "function", "get_weatherstack_weather", "[]"),
     k7 |-> FunctionCall("call-7", "function", "get_weatherstack_weather", NoAttr),
     k8 |-> FunctionCall("call-8", "function", NoAttr, NoAttr),
     k9 |-> FunctionCall("call-9", "function", "get_weatherstack_weather",
                         "location=Seattle")]

\* the pending lists the service sends to the weather handler
WeatherPendingLists ==
    {<<WeatherCalls.k1>>,
     <<WeatherCalls.k1, WeatherCalls.k2>>,
     <<WeatherCalls.k3, WeatherCalls.k1, WeatherCalls.k4>>,
     <<WeatherCalls.k3, WeatherCalls.k4, WeatherCalls.k8>>,
     <<WeatherCalls.k5>>,
     <<WeatherCalls.k6, WeatherCalls.k1>>,
     <<WeatherCalls.k2, WeatherCalls.k7, WeatherCalls.k9>>}

\* the required_action attribute a snapshot can carry, by the handler in use
RequiredActionsFor(handler) ==
    IF handler = WeatherHandler
      THEN {[has |-> FALSE, tool_calls |-> <<>>]}
              \cup {[has |-> TRUE, tool_calls |-> l] : l \in WeatherPendingLists}
      ELSE RequiredActions

\* what the handler in use may do with the pending calls: the exception it
\* raises (or None), the outputs it returns, and, for the weather handler,
\* what it did with each call
HandlerOutcomes(handler, tool_calls, provider) ==
    IF handler = WeatherHandler
      THEN {HandleToolCalls(tool_calls, provider)}
      ELSE {[raised |-> None, outputs |-> outs, trace |-> <<>>] : outs \in HandlerReturns}
              \cup {[raised |-> "HandlerError", outputs |-> <<>>, trace |-> <<>>]}

----------------------------------------------------------------------------
(* Initial states *)

\* no tool function call is under way
NoTool ==
    [pc |-> "off", fn |-> "", location |-> "", date |-> None, company |-> None,
     symbol |-> None, interval |-> "", api_key |-> None,
     provider |-> ProviderFailure("none", ""), result |-> Returns("")]

InitFor(active) ==
    /\ pc = [p \in Invocations |-> IF p \in active THEN "start" ELSE "off"]
    /\ args \in [Invocations -> ArgSets]
    /\ \A p \in Invocations \ active : args[p] = args[CHOOSE q \in active : TRUE]
    /\ client = [p \in Invocations |-> "unopened"]
    /\ agent = [p \in Invocations |-> NoAgent]
    /\ thread = [p \in Invocations |-> NoObject]
    /\ run = [p \in Invocations |-> NoRun]
    /\ frame = [p \in Invocations |-> NoFrame]
    /\ messages = [p \in Invocations |-> <<>>]
    /\ result = [p \in Invocations |-> NoResult]
    /\ raised = [p \in Invocations |-> None]
    /\ log = [p \in Invocations |-> <<>>]
    /\ remoteSeq = 0
    /\ remoteAgents = {}
    /\ remoteThreads = <<>>

\* no program has been started from the shell
NoScript ==
    [pc |-> "off", path |-> None, agent |-> None, prompt_arg |-> None,
     additional_instructions |-> None, auto_delete_agent |-> FALSE, prompt |-> None,
     calls |-> <<>>, returned |-> <<>>, raised |-> None]

Init == InitFor({1}) /\ tool = NoTool /\ script = NoScript

----------------------------------------------------------------------------
(* Steps shared by the actions *)

Goto(p, label) == pc' = [pc EXCEPT ![p] = label]

Call(p, op, arg, ok) == log' = [log EXCEPT ![p] = Append(@, Event(op, arg, ok))]

\* a plausible slip: the client is not held by a context manager, so an
\* exception leaves without closing it
RaiseBypassingExit(p, exc) ==
    /\ raised' = [raised EXCEPT ![p] = exc]
    /\ Goto(p, "raised")

\* a plausible slip: the failed step is tried again
RaiseRetrying(p, exc) == UNCHANGED <<pc, raised>>

\* an exception raised inside the `with project_client_context()` block
\* leaves through the context manager
RaiseInContext(p, exc) ==
    /\ raised' = [raised EXCEPT ![p] = exc]
    /\ Goto(p, "exit_context")

\* the remote service hands out a fresh id
FreshId == remoteSeq + 1

----------------------------------------------------------------------------
(* run_agent_interaction *)

\* if not user_input: raise ValueError
CheckInput(p) ==
    /\ pc[p] = "start"
    /\ IF NotStr(args[p].user_input)
         THEN /\ raised' = [raised EXCEPT ![p] = "ValueError"]
              /\ Goto(p, "raised")
         ELSE /\ Goto(p, "enter_context")
              /\ UNCHANGED raised
    /\ UNCHANGED <<script, tool, args, client, agent, thread, run, frame, messages, result, log,
                   remoteSeq, remoteAgents, remoteThreads>>

\* with project_client_context() as project_client:
EnterContext(p) ==
    /\ pc[p] = "enter_context"
    /\ client' = [client EXCEPT ![p] = "open"]
    /\ Call(p, "open", None, TRUE)
    /\ Goto(p, "create_agent")
    /\ UNCHANGED <<script, tool, args, agent, thread, run, frame, messages, result, raised,
                   remoteSeq, remoteAgents, remoteThreads>>

\* agent = project_client.agents.create_agent(...)
CreateAgent(p) ==
    /\ pc[p] = "create_agent"
    /\ \E ok \in BOOLEAN :
        /\ Call(p, "create_agent", AgentConfig.name, ok)
        /\ IF ok
             THEN /\ agent' = [agent EXCEPT ![p] = [id |-> FreshId, name |-> AgentConfig.name]]
                  /\ remoteSeq' = FreshId
                  /\ remoteAgents' = remoteAgents \cup {FreshId}
                  /\ Goto(p, "create_thread")
                  /\ UNCHANGED raised
             ELSE /\ RaiseInContext(p, "RemoteError")
                  /\ UNCHANGED <<agent, remoteSeq, remoteAgents>>
    /\ UNCHANGED <<script, tool, args, client, thread, run, frame, messages, result, remoteThreads>>

\* thread = project_client.agents.threads.create()
CreateThread(p) ==
    /\ pc[p] = "create_thread"
    /\ \E ok \in BOOLEAN :
        /\ Call(p, "threads.create", None, ok)
        /\ IF ok
             THEN /\ thread' = [thread EXCEPT ![p] = [id |-> FreshId]]
                  /\ remoteSeq' = FreshId
                  /\ remoteThreads' = remoteThreads @@ (FreshId :> <<>>)
                  /\ Goto(p, "create_message")
                  /\ UNCHANGED raised
             ELSE /\ RaiseInContext(p, "RemoteError")
                  /\ UNCHANGED <<thread, remoteSeq, remoteThreads>>
    /\ UNCHANGED <<script, tool, args, client, agent, run, frame, messages, result, remoteAgents>>

\* project_client.agents.messages.create(thread_id=thread.id, role="user", content=user_input)
CreateMessage(p) ==
    /\ pc[p] = "create_message"
    /\ \E ok \in BOOLEAN :
        /\ Call(p, "messages.create",
                [thread_id |-> thread[p].id, role |-> "user", content |-> args[p].user_input], ok)
        /\ IF ok
             THEN /\ remoteThreads' =
                        [remoteThreads EXCEPT ![thread[p].id] =
                            Append(@, [role |-> "user", content |-> args[p].user_input])]
                  /\ Goto(p, "start_run")
                  /\ UNCHANGED raised
             ELSE /\ RaiseInContext(p, "RemoteError")
                  /\ UNCHANGED remoteThreads
    /\ UNCHANGED <<script, tool, args, client, agent, thread, run, frame, messages, result,
                   remoteSeq, remoteAgents>>

\* a plausible slip: the branch on the handler is lost
UsesDispatcherAlways(p) == TRUE

\* if handle_tool_calls:
UsesDispatcher(p) == Supplied(args[p].handle_tool_calls)

\* a plausible slip: the poll interval is not passed on, the default 1.0 is used
PollArgumentsDefaultInterval(p, created) ==
    [thread_id |-> thread[p].id,
     run_id |-> created.id,
     handle_tool_calls |-> args[p].handle_tool_calls,
     poll_interval |-> 1]

\* the keyword arguments run_agent_interaction passes to _poll_run_with_tools
PollArguments(p, created) ==
    [thread_id |-> thread[p].id,
     run_id |-> created.id,
     handle_tool_calls |-> args[p].handle_tool_calls,
     poll_interval |-> args[p].poll_interval_seconds]

\* run = project_client.agents.runs.create(...); run = _poll_run_with_tools(...)
\* up to the entry of the loop
CreateRun(p) ==
    /\ pc[p] = "start_run"
    /\ UsesDispatcher(p)
    /\ \E ok \in BOOLEAN :
        /\ IF ok
             THEN LET created == [NoRun EXCEPT !.id = FreshId]
                      kwargs == PollArguments(p, created)
                  IN /\ log' = [log EXCEPT ![p] =
                            @ \o << Event("runs.create",
                                          [thread_id |-> thread[p].id, agent_id |-> agent[p].id,
                                           run_id |-> created.id], TRUE),
                                    Event("_poll_run_with_tools", kwargs, TRUE) >>]
                     /\ run' = [run EXCEPT ![p] = created]
                     /\ remoteSeq' = FreshId
                     /\ frame' = [frame EXCEPT ![p] =
                            [NoFrame EXCEPT !.thread_id = kwargs.thread_id,
                                            !.run_id = kwargs.run_id,
                                            !.handle_tool_calls = kwargs.handle_tool_calls,
                                            !.poll_interval = kwargs.poll_interval]]
                     /\ Goto(p, "poll_get")
                     /\ UNCHANGED raised
             ELSE /\ Call(p, "runs.create",
                          [thread_id |-> thread[p].id, agent_id |-> agent[p].id, run_id |-> 0],
                          FALSE)
                  /\ RaiseInContext(p, "RemoteError")
                  /\ UNCHANGED <<run, remoteSeq, frame>>
    /\ UNCHANGED <<script, tool, args, client, agent, thread, messages, result, remoteAgents, remoteThreads>>

\* run = project_client.agents.runs.create_and_process(...)
CreateAndProcess(p) ==
    /\ pc[p] = "start_run"
    /\ ~UsesDispatcher(p)
    /\ \E ok \in BOOLEAN, st \in FinalStatuses \cup {NoAttr} :
        IF ok
          THEN /\ Call(p, "runs.create_and_process",
                       [thread_id |-> thread[p].id, agent_id |-> agent[p].id,
                        run_id |-> FreshId], TRUE)
               /\ run' = [run EXCEPT ![p] = [NoRun EXCEPT !.id = FreshId, !.status = st]]
               /\ remoteSeq' = FreshId
               /\ remoteThreads' =
                     [remoteThreads EXCEPT ![thread[p].id] =
                         Append(@, [role |-> "assistant", content |-> "All done"])]
               /\ Goto(p, "list_messages")
               /\ UNCHANGED raised
          ELSE /\ st = "completed"
               /\ Call(p, "runs.create_and_process",
                       [thread_id |-> thread[p].id, agent_id |-> agent[p].id, run_id |-> 0],
                       FALSE)
               /\ RaiseInContext(p, "RemoteError")
               /\ UNCHANGED <<run, remoteSeq, remoteThreads>>
    /\ UNCHANGED <<script, tool, args, client, agent, thread, frame, messages, result, remoteAgents>>

\* messages = list(project_client.agents.messages.list(thread_id=thread.id))
\* result = AgentRunResult(...)
\* a plausible slip: the thread is kept in a module-level variable, so the
\* listing reads the thread created last by any invocation
ListMessagesSharedThread(p) ==
    /\ pc[p] = "list_messages"
    /\ \E ok \in BOOLEAN :
        LET shared == CHOOSE t \in DOMAIN remoteThreads :
                          \A u \in DOMAIN remoteThreads : u <= t
        IN /\ Call(p, "messages.list", [thread_id |-> shared], ok)
           /\ IF ok
                THEN LET fetched == remoteThreads[shared]
                     IN /\ messages' = [messages EXCEPT ![p] = fetched]
                        /\ result' = [result EXCEPT ![p] =
                               AgentRunResult(agent[p], [id |-> shared], run[p], fetched)]
                        /\ Goto(p, "post_run_hook")
                        /\ UNCHANGED raised
                ELSE /\ RaiseInContext(p, "RemoteError")
                     /\ UNCHANGED <<messages, result>>
    /\ UNCHANGED <<script, tool, args, client, agent, thread, run, frame,
                   remoteSeq, remoteAgents, remoteThreads>>

ListMessages(p) ==
    /\ pc[p] = "list_messages"
    /\ \E ok \in BOOLEAN :
        /\ Call(p, "messages.list", [thread_id |-> thread[p].id], ok)
        /\ IF ok
             THEN LET fetched == remoteThreads[thread[p].id]
                  IN /\ messages' = [messages EXCEPT ![p] = fetched]
                     /\ result' = [result EXCEPT ![p] =
                            AgentRunResult(agent[p], thread[p], run[p], fetched)]
                     /\ Goto(p, "post_run_hook")
                     /\ UNCHANGED raised
             ELSE /\ RaiseInContext(p, "RemoteError")
                  /\ UNCHANGED <<messages, result>>
    /\ UNCHANGED <<script, tool, args, client, agent, thread, run, frame,
                   remoteSeq, remoteAgents, remoteThreads>>

\* a plausible slip: the hook call is dedented out of the `with` block, so
\* it runs after the client was closed
PostRunHookAfterClose(p) ==
    /\ pc[p] = "post_run_hook"
    /\ IF Supplied(args[p].post_run_hook)
         THEN \E ok \in BOOLEAN :
                /\ client' = [client EXCEPT ![p] = "closed"]
                /\ log' = [log EXCEPT ![p] =
                       @ \o << Event("close", None, TRUE),
                               Event("post_run_hook",
                                     [client |-> "closed", result |-> result[p]], ok) >>]
                /\ raised' = [raised EXCEPT ![p] = IF ok THEN None ELSE "HookError"]
                /\ Goto(p, IF ok THEN "returned" ELSE "raised")
         ELSE /\ Goto(p, "delete_agent")
              /\ UNCHANGED <<log, raised, client>>
    /\ UNCHANGED <<script, tool, args, agent, thread, run, frame, messages, result,
                   remoteSeq, remoteAgents, remoteThreads>>

\* if post_run_hook: post_run_hook(project_client, result)
PostRunHook(p) ==
    /\ pc[p] = "post_run_hook"
    /\ IF Supplied(args[p].post_run_hook)
         THEN \E ok \in BOOLEAN :
                /\ Call(p, "post_run_hook", [client |-> client[p], result |-> result[p]], ok)
                /\ IF ok
                     THEN Goto(p, "delete_agent") /\ UNCHANGED raised
                     ELSE RaiseInContext(p, "HookError")
         ELSE /\ Goto(p, "delete_agent")
              /\ UNCHANGED <<log, raised>>
    /\ UNCHANGED <<script, tool, args, client, agent, thread, run, frame, messages, result,
                   remoteSeq, remoteAgents, remoteThreads>>

\* a plausible slip: the agent is deleted whatever the caller asked for
AutoDeleteAlways(a) == TRUE

\* `if auto_delete_agent`
AutoDelete(a) == a.auto_delete_agent

\* if auto_delete_agent: project_client.agents.delete_agent(agent.id)
DeleteAgent(p) ==
    /\ pc[p] = "delete_agent"
    /\ IF AutoDelete(args[p])
         THEN \E ok \in BOOLEAN :
                /\ Call(p, "delete_agent", agent[p].id, ok)
                /\ IF ok
                     THEN /\ remoteAgents' = remoteAgents \ {agent[p].id}
                          /\ Goto(p, "exit_context")
                          /\ UNCHANGED raised
                     ELSE /\ RaiseInContext(p, "RemoteError")
                          /\ UNCHANGED remoteAgents
         ELSE /\ Goto(p, "exit_context")
              /\ UNCHANGED <<log, raised, remoteAgents>>
    /\ UNCHANGED <<script, tool, args, client, agent, thread, run, frame, messages, result,
                   remoteSeq, remoteThreads>>

\* the position an invocation is in once the context manager has closed
\* the client: `return result`, or the exception goes on to the caller
AfterExit(exc) == IF exc = None THEN "returned" ELSE "raised"

\* leaving the `with` block, normally or by an exception: the context
\* manager closes the client
ExitContext(p) ==
    /\ pc[p] = "exit_context"
    /\ client' = [client EXCEPT ![p] = "closed"]
    /\ Call(p, "close", None, TRUE)
    /\ Goto(p, AfterExit(raised[p]))
    /\ UNCHANGED <<script, tool, args, agent, thread, run, frame, messages, result, raised,
                   remoteSeq, remoteAgents, remoteThreads>>

----------------------------------------------------------------------------
(* _poll_run_with_tools *)

\* a plausible slip: the loop hands back the run it was started for, not
\* the snapshot it fetched last
PollReturnCreatedRun(f) == [NoRun EXCEPT !.id = f.run_id]

\* `return run` of the poll loop
PollReturn(f) == f.run

\* run = project_client.agents.runs.get(...); status = getattr(run, "status", "unknown")
\* and the branch on the status
PollGet(p) ==
    /\ pc[p] = "poll_get"
    /\ Cardinality(Gets(p)) < MaxPolls
    /\ \E ok \in BOOLEAN, st \in SnapshotStatuses,
          ra \in RequiredActionsFor(frame[p].handle_tool_calls) :
        LET snapshot == [id |-> frame[p].run_id, status |-> st, required_action |-> ra]
            f == [frame[p] EXCEPT !.run = snapshot, !.status = GetStatus(snapshot),
                                  !.tool_calls = <<>>, !.outputs = <<>>]
        IN IF ok
             THEN /\ st = "requires_action" \/ ~ra.has
                  /\ Call(p, "runs.get",
                          [thread_id |-> frame[p].thread_id, run_id |-> frame[p].run_id,
                           run |-> snapshot], TRUE)
                  /\ frame' = [frame EXCEPT ![p] = f]
                  /\ remoteThreads' =
                        IF st = "completed"
                          THEN [remoteThreads EXCEPT ![frame[p].thread_id] =
                                   Append(@, [role |-> "assistant", content |-> "All done"])]
                          ELSE remoteThreads
                  /\ IF PollBranch(f.status) = "return"
                       THEN /\ run' = [run EXCEPT ![p] = PollReturn(f)]
                            /\ Goto(p, "list_messages")
                       ELSE /\ Goto(p, PollBranch(f.status))
                            /\ UNCHANGED run
                  /\ UNCHANGED raised
             ELSE /\ st = "completed" /\ ~ra.has
                  /\ Call(p, "runs.get",
                          [thread_id |-> frame[p].thread_id, run_id |-> frame[p].run_id,
                           run |-> NoRun], FALSE)
                  /\ RaiseInContext(p, "RemoteError")
                  /\ UNCHANGED <<frame, run, remoteThreads>>
    /\ UNCHANGED <<script, tool, args, client, agent, thread, messages, result, remoteSeq, remoteAgents>>

\* a plausible slip: the pending calls are read as the scripts read them,
\* run.required_action.submit_tool_outputs.tool_calls, which raises
\* AttributeError on a snapshot without the field
PollHandleDirectAttribute(p) ==
    /\ pc[p] = "poll_handle"
    /\ IF ~frame[p].run.required_action.has
         THEN /\ RaiseInContext(p, "AttributeError")
              /\ UNCHANGED <<log, frame>>
         ELSE LET tool_calls == frame[p].run.required_action.tool_calls
              IN \E out \in HandlerOutcomes(frame[p].handle_tool_calls, tool_calls,
                                            tool.provider) :
                  /\ Call(p, "handle_tool_calls",
                          [handler |-> frame[p].handle_tool_calls, client |-> client[p],
                           tool_calls |-> tool_calls, outputs |-> out.outputs,
                           trace |-> out.trace], out.raised = None)
                  /\ frame' = [frame EXCEPT ![p].tool_calls = tool_calls,
                                            ![p].outputs = out.outputs]
                  /\ IF out.raised # None THEN RaiseInContext(p, out.raised)
                     ELSE IF NotList(out.outputs) THEN RaiseInContext(p, "RuntimeError")
                     ELSE Goto(p, "poll_submit") /\ UNCHANGED raised
    /\ UNCHANGED <<script, tool, args, client, agent, thread, run, messages, result,
                   remoteSeq, remoteAgents, remoteThreads>>

\* the requires_action branch up to the check of the handler's outputs
PollHandle(p) ==
    /\ pc[p] = "poll_handle"
    /\ LET tool_calls == GetToolCalls(frame[p].run)
       IN \E out \in HandlerOutcomes(frame[p].handle_tool_calls, tool_calls, tool.provider) :
           /\ Call(p, "handle_tool_calls",
                   [handler |-> frame[p].handle_tool_calls, client |-> client[p],
                    tool_calls |-> tool_calls, outputs |-> out.outputs,
                    trace |-> out.trace], out.raised = None)
           /\ frame' = [frame EXCEPT ![p].tool_calls = tool_calls,
                                     ![p].outputs = out.outputs]
           /\ IF out.raised # None THEN RaiseInContext(p, out.raised)
              ELSE IF NotList(out.outputs) THEN RaiseInContext(p, "RuntimeError")
              ELSE Goto(p, "poll_submit") /\ UNCHANGED raised
    /\ UNCHANGED <<script, tool, args, client, agent, thread, run, messages, result,
                   remoteSeq, remoteAgents, remoteThreads>>

\* a plausible slip: the `continue` after the submit is missing, so the
\* loop falls through to the sleep
PollSubmitThenSleep(p) ==
    /\ pc[p] = "poll_submit"
    /\ \E ok \in BOOLEAN :
        /\ Call(p, "runs.submit_tool_outputs",
                [thread_id |-> frame[p].thread_id, run_id |-> frame[p].run.id,
                 tool_outputs |-> frame[p].outputs], ok)
        /\ IF ok
             THEN Goto(p, "poll_sleep") /\ UNCHANGED raised
             ELSE RaiseInContext(p, "RemoteError")
    /\ UNCHANGED <<script, tool, args, client, agent, thread, run, frame, messages, result,
                   remoteSeq, remoteAgents, remoteThreads>>

\* a plausible slip: only the first output of the handler is submitted
PollSubmitFirstOutput(p) ==
    /\ pc[p] = "poll_submit"
    /\ \E ok \in BOOLEAN :
        /\ Call(p, "runs.submit_tool_outputs",
                [thread_id |-> frame[p].thread_id, run_id |-> frame[p].run.id,
                 tool_outputs |-> SubSeq(frame[p].outputs, 1, 1)], ok)
        /\ IF ok
             THEN Goto(p, "poll_get") /\ UNCHANGED raised
             ELSE RaiseInContext(p, "RemoteError")
    /\ UNCHANGED <<script, tool, args, client, agent, thread, run, frame, messages, result,
                   remoteSeq, remoteAgents, remoteThreads>>

\* project_client.agents.runs.submit_tool_outputs(...); continue
PollSubmit(p) ==
    /\ pc[p] = "poll_submit"
    /\ \E ok \in BOOLEAN :
        /\ Call(p, "runs.submit_tool_outputs",
                [thread_id |-> frame[p].thread_id, run_id |-> frame[p].run.id,
                 tool_outputs |-> frame[p].outputs], ok)
        /\ IF ok
             THEN Goto(p, "poll_get") /\ UNCHANGED raised
             ELSE RaiseInContext(p, "RemoteError")
    /\ UNCHANGED <<script, tool, args, client, agent, thread, run, frame, messages, result,
                   remoteSeq, remoteAgents, remoteThreads>>

\* a plausible slip: the loop gives up after two fetches and hands back
\* what it has
AfterSleepWithLimit(p) ==
    IF Cardinality(Gets(p)) >= 2 THEN "list_messages" ELSE "poll_get"

\* after the sleep the `while True` loop starts over, whatever the number of
\* passes and the time spent
AfterSleep(p) == "poll_get"

\* time.sleep(poll_interval), for a polling or an unknown status
PollSleep(p) ==
    /\ pc[p] = "poll_sleep"
    /\ Call(p, "time.sleep", frame[p].poll_interval, TRUE)
    /\ Goto(p, AfterSleep(p))
    /\ UNCHANGED <<script, tool, args, client, agent, thread, run, frame, messages, result, raised,
                   remoteSeq, remoteAgents, remoteThreads>>

----------------------------------------------------------------------------
(* Specification *)

Step(p) ==
    \/ CheckInput(p)
    \/ EnterContext(p)
    \/ CreateAgent(p)
    \/ CreateThread(p)
    \/ CreateMessage(p)
    \/ CreateRun(p)
    \/ CreateAndProcess(p)
    \/ PollGet(p)
    \/ PollHandle(p)
    \/ PollSubmit(p)
    \/ PollSleep(p)
    \/ ListMessages(p)
    \/ PostRunHook(p)
    \/ DeleteAgent(p)
    \/ ExitContext(p)

Next == \E p \in Invocations : Step(p)

Spec == Init /\ [][Next]_vars

----------------------------------------------------------------------------
(* One call of a tool function *)

SeattleLocation == LocationObject("Seattle", "2025-05-01", "USA")

WeatherCurrents ==
    {JAbsent, EmptyObject, [t |-> "str"]}
        \cup {CurrentObject(te, hu, de) :
                te \in {JInt(12), JInt(-3), JFloat(125), JFloat(-5), JNone, JBadNumber},
                hu \in {JInt(75), JFloat(759), JNone, JBadNumber},
                de \in {Descriptions(<<"Light rain", "Windy">>), Descriptions(<<"", "Snow">>),
                        Descriptions(<<"">>), Descriptions(<<>>), NoDescriptions,
                        NumberDescriptions}}

\* what the weather provider may answer
WeatherProviders ==
    {ProviderFailure("request_exception", "boom"), ProviderFailure("unreadable", ""),
     NonObjectBody("array"), NonObjectBody("null"),
     Payload([t |-> "str"], JAbsent, JAbsent),
     Payload(ErrorObject("101", NoAttr), JAbsent, JAbsent),
     Payload(ErrorObject(NoAttr, "Rate limited."), SeattleLocation, JAbsent)}
        \cup {Payload(JAbsent, lo, cu) :
                lo \in {JAbsent, SeattleLocation, LocationObject(NoAttr, NoAttr, NoAttr),
                        [t |-> "str"]},
                cu \in WeatherCurrents}

WeatherToolCalls ==
    {[NoTool EXCEPT !.pc = "ready", !.fn = "get_weatherstack_weather",
                    !.location = lo, !.date = da, !.provider = pr] :
        lo \in {"", "seattle", "new york", "SAN jose"},
        da \in {None, "2025-04-30"},
        pr \in WeatherProviders}

IntradayRecords ==
    {[t |-> "str"]}
        \cup {IntradayRecord(op, cl, vo) :
                op \in {Price(100), MissingPrice, BadPrice},
                cl \in {Price(150), Price(123456), NullPrice},
                vo \in {Price(1000), Price(1234567), BadPrice}}

\* what the stock provider may answer
StockProviders ==
    {ProviderFailure("request_exception", "boom"),
     ProviderFailure("invalid_json_error", "Expecting value"),
     ProviderFailure("unreadable", ""),
     NonObjectBody("array"), NonObjectBody("null"),
     StockData(NoAttr, "limit reached", [t |-> "empty"]),
     StockData(NoAttr, NoAttr, [t |-> "empty"]),
     StockData("Time Series (5min)", NoAttr, [t |-> "empty"]),
     StockData("Time Series (5min)", NoAttr, [t |-> "str"])}
        \cup {StockData("Time Series (5min)", NoAttr,
                        Series(<<"2025-05-01 15:55:00", "2025-05-01 16:00:00">>, r)) :
                r \in IntradayRecords}

StockToolCalls ==
    {[NoTool EXCEPT !.pc = "ready", !.fn = "fetch_intraday_stock_price",
                    !.company = co, !.symbol = sy, !.interval = iv, !.api_key = key,
                    !.provider = pr] :
        co \in {None, "Apple", " ibm ", "BRK.B", "A very long company"},
        sy \in {None, " msft "},
        iv \in {"5min", "2min"},
        key \in {None, "key"},
        pr \in StockProviders}

\* no invocation of run_agent_interaction is under way
NoInvocation ==
    /\ pc = [p \in Invocations |-> "off"]
    /\ args = [p \in Invocations |->
                  [user_input |-> "", additional_instructions |-> None,
                   handle_tool_calls |-> None, poll_interval_seconds |-> 1,
                   post_run_hook |-> None, auto_delete_agent |-> FALSE]]
    /\ client = [p \in Invocations |-> "unopened"]
    /\ agent = [p \in Invocations |-> NoAgent]
    /\ thread = [p \in Invocations |-> NoObject]
    /\ run = [p \in Invocations |-> NoRun]
    /\ frame = [p \in Invocations |-> NoFrame]
    /\ messages = [p \in Invocations |-> <<>>]
    /\ result = [p \in Invocations |-> NoResult]
    /\ raised = [p \in Invocations |-> None]
    /\ log = [p \in Invocations |-> <<>>]
    /\ remoteSeq = 0
    /\ remoteAgents = {}
    /\ remoteThreads = <<>>

InitTool == NoInvocation /\ tool \in WeatherToolCalls \cup StockToolCalls /\ script = NoScript

invocationVars == <<pc, args, client, agent, thread, run, frame, messages, result,
                    raised, log, remoteSeq, remoteAgents, remoteThreads>>

\* output = get_weatherstack_weather(location=..., date=...)
CallWeather ==
    /\ tool.pc = "ready"
    /\ tool.fn = "get_weatherstack_weather"
    /\ tool' = [tool EXCEPT !.pc = "done",
                            !.result = get_weatherstack_weather(tool.location, tool.date,
                                                                tool.provider)]
    /\ UNCHANGED <<invocationVars, script>>

\* output = fetch_intraday_stock_price(company=..., symbol=..., interval=...)
CallStock ==
    /\ tool.pc = "ready"
    /\ tool.fn = "fetch_intraday_stock_price"
    /\ tool' = [tool EXCEPT !.pc = "done",
                            !.result = fetch_intraday_stock_price(tool.company, tool.symbol,
                                            tool.interval, tool.api_key, tool.provider)]
    /\ UNCHANGED <<invocationVars, script>>

NextTool == CallWeather \/ CallStock

SpecTool == InitTool /\ [][NextTool]_vars

----------------------------------------------------------------------------
(* A run of the weather agent: weather_agent.run *)

\* the answers of the weather provider during a run with the weather handler
RunProviders ==
    {Payload(JAbsent, SeattleLocation,
             CurrentObject(JInt(12), JInt(75), Descriptions(<<"Light rain", "Windy">>))),
     ProviderFailure("request_exception", "boom"),
     NonObjectBody("array")}

\* run_agent_interaction as weather_agent.run calls it, against a provider
\* that answers every request of the run in one way
InitWeather ==
    /\ \E del \in BOOLEAN :
         args = [p \in Invocations |->
                    [user_input |-> "Weather in Seattle?",
                     additional_instructions |-> "If no date is given, assume today.",
                     handle_tool_calls |-> WeatherHandler, poll_interval_seconds |-> 1,
                     post_run_hook |-> None, auto_delete_agent |-> del]]
    /\ pc = [p \in Invocations |-> IF p = 1 THEN "start" ELSE "off"]
    /\ client = [p \in Invocations |-> "unopened"]
    /\ agent = [p \in Invocations |-> NoAgent]
    /\ thread = [p \in Invocations |-> NoObject]
    /\ run = [p \in Invocations |-> NoRun]
    /\ frame = [p \in Invocations |-> NoFrame]
    /\ messages = [p \in Invocations |-> <<>>]
    /\ result = [p \in Invocations |-> NoResult]
    /\ raised = [p \in Invocations |-> None]
    /\ log = [p \in Invocations |-> <<>>]
    /\ remoteSeq = 0
    /\ remoteAgents = {}
    /\ remoteThreads = <<>>
    /\ \E pr \in RunProviders : tool = [NoTool EXCEPT !.provider = pr]
    /\ script = NoScript

\* the steps of such a run: run_agent_interaction with a handler, so without
\* the create_and_process branch
StepWeather(p) ==
    \/ CheckInput(p)
    \/ EnterContext(p)
    \/ CreateAgent(p)
    \/ CreateThread(p)
    \/ CreateMessage(p)
    \/ CreateRun(p)
    \/ PollGet(p)
    \/ PollHandle(p)
    \/ PollSubmit(p)
    \/ PollSleep(p)
    \/ ListMessages(p)
    \/ PostRunHook(p)
    \/ DeleteAgent(p)
    \/ ExitContext(p)

NextWeather == \E p \in Invocations : StepWeather(p)

SpecWeather == InitWeather /\ [][NextWeather]_vars

----------------------------------------------------------------------------
(* A remote run that makes progress *)

\* what the service and the handler have done so far is progress: every
\* runs.get and submit_tool_outputs call went through, the handler returned
\* outputs, and not all of them empty, for every pending list, and the last
\* fetch the bound permits found the run in a final status
RemoteProgress ==
    \A p \in Invocations :
        /\ \A i \in 1..Len(log[p]) :
              /\ log[p][i].op \in {"runs.get", "runs.submit_tool_outputs"} => log[p][i].ok
              /\ log[p][i].op = "handle_tool_calls" =>
                    (log[p][i].ok /\ log[p][i].arg.outputs # <<>>)
        /\ Cardinality(Gets(p)) = MaxPolls =>
              \E i \in Gets(p) : log[p][i].arg.run.status \in FinalStatuses

\* a step of the program answered by such a service and handler
NextProgress == Next /\ RemoteProgress'

\* the program runs on: a sequential program whose calls all return takes
\* its next step
SpecProgress == Init /\ [][NextProgress]_vars /\ WF_vars(NextProgress)

----------------------------------------------------------------------------
(* Two invocations of run_agent_interaction at once *)

ConcurrentPolls == 2

\* both invocations are started: the first polls with a handler, the second
\* lets the service process its run, and their inputs differ
InitConcurrent ==
    /\ InitFor({1, 2})
    /\ args[1] = [user_input |-> "Hello", additional_instructions |-> None,
                  handle_tool_calls |-> "handler_a", poll_interval_seconds |-> 1,
                  post_run_hook |-> None, auto_delete_agent |-> TRUE]
    /\ args[2] = [user_input |-> " ", additional_instructions |-> None,
                  handle_tool_calls |-> None, poll_interval_seconds |-> 2,
                  post_run_hook |-> "hook", auto_delete_agent |-> TRUE]
    /\ tool = NoTool
    /\ script = NoScript

\* a step of either invocation, each fetching its run a few times
NextConcurrent ==
    Next /\ (\A p \in Invocations : Cardinality(Gets(p)) <= ConcurrentPolls)'

SpecConcurrent == InitConcurrent /\ [][NextConcurrent]_vars

----------------------------------------------------------------------------
(* main.py: the command line *)

\* the directory in which `import weather_agent` finds its module: the
\* directory of main.py, first on sys.path when main.py is run as a script,
\* or agents/ when the caller has put it in front
ImportPaths == {"script_dir", "agents_dir"}

\* the names the module weather_agent defines: weather_agent.py next to
\* main.py is the standalone script, agents/weather_agent.py the runner
ModuleNames(path) ==
    IF path = "script_dir"
      THEN {"WeatherReport", "_extract_condition", "get_weatherstack_weather",
            "weather_tool_definition", "main"}
      ELSE {"WeatherReport", "_extract_condition", "get_weatherstack_weather",
            "weather_tool_definition", "run", "_handle_tool_calls"}

\* the keys of AGENT_REGISTRY, the choices of --agent
AGENT_REGISTRY == {"math", "weather"}

\* the command lines of the model: --agent, --prompt (None: not given),
\* --additional-instructions, --auto-delete-agent
PromptArguments == {None, "", "  ", " What is 2+2? ", "Weather in Seattle?"}

CommandLines ==
    {[NoScript EXCEPT !.pc = "import", !.path = pa, !.agent = ag, !.prompt_arg = pr,
                      !.additional_instructions = ai, !.auto_delete_agent = del] :
        pa \in ImportPaths, ag \in AGENT_REGISTRY, pr \in PromptArguments,
        ai \in {None, "Be brief."}, del \in BOOLEAN}

\* what input() may do: return the line typed, or raise
InputOutcomes ==
    {Returns(""), Returns("   "), Returns(" hello "), Raises("KeyboardInterrupt"),
     Raises("EOFError")}

InitCli == NoInvocation /\ tool = NoTool /\ script \in CommandLines

ScriptCall(op, arg, ok) == [script EXCEPT !.calls = Append(@, Event(op, arg, ok))]

\* the module body of main.py: the imports and AGENT_REGISTRY = {...}, whose
\* value weather_agent.run is an attribute lookup
ImportMain ==
    /\ script.pc = "import"
    /\ script' = IF "run" \in ModuleNames(script.path)
                   THEN [script EXCEPT !.pc = "parse"]
                   ELSE [script EXCEPT !.pc = "raised", !.raised = "AttributeError"]
    /\ UNCHANGED <<invocationVars, tool>>

\* args = parser.parse_args(argv); runner = AGENT_REGISTRY[args.agent]
ParseArgs ==
    /\ script.pc = "parse"
    /\ script.agent \in AGENT_REGISTRY
    /\ script' = [script EXCEPT !.pc = "prompt"]
    /\ UNCHANGED <<invocationVars, tool>>

\* _prompt_for_input(): the line typed, or "" on KeyboardInterrupt
PromptForInput(outcome) ==
    IF outcome.raised = "KeyboardInterrupt" THEN Returns("") ELSE outcome

\* the .strip() of the prompt
StripPrompt(s) == Strip(s)

\* prompt = (args.prompt or _prompt_for_input()).strip()
ReadPrompt ==
    /\ script.pc = "prompt"
    /\ IF script.prompt_arg # None /\ script.prompt_arg # ""
         THEN script' = [script EXCEPT !.pc = "check",
                                       !.prompt = StripPrompt(script.prompt_arg)]
         ELSE \E outcome \in InputOutcomes :
                LET typed == PromptForInput(outcome)
                    asked == ScriptCall("input", outcome, outcome.raised = None)
                IN script' = IF typed.raised # None
                               THEN [asked EXCEPT !.pc = "raised", !.raised = typed.raised]
                               ELSE [asked EXCEPT !.pc = "check",
                                                  !.prompt = StripPrompt(typed.value)]
    /\ UNCHANGED <<invocationVars, tool>>

\* if not prompt: print(...); return 1
CheckPrompt ==
    /\ script.pc = "check"
    /\ script' = IF script.prompt = ""
                   THEN [script EXCEPT !.pc = "returned", !.returned = <<1>>]
                   ELSE [script EXCEPT !.pc = "run"]
    /\ UNCHANGED <<invocationVars, tool>>

\* result = runner(prompt, additional_instructions=..., auto_delete_agent=...):
\* the runner returns a result, or the exception of its run goes on
RunAgent ==
    /\ script.pc = "run"
    /\ \E ok \in BOOLEAN :
         LET called == ScriptCall("runner",
                                  [agent |-> script.agent, user_input |-> script.prompt,
                                   additional_instructions |-> script.additional_instructions,
                                   auto_delete_agent |-> script.auto_delete_agent], ok)
         IN script' = IF ok THEN [called EXCEPT !.pc = "print"]
                      ELSE [called EXCEPT !.pc = "raised", !.raised = "RemoteError"]
    /\ UNCHANGED <<invocationVars, tool>>

\* print_thread_messages(result); return 0
PrintMessages ==
    /\ script.pc = "print"
    /\ script' = [ScriptCall("print_thread_messages", None, TRUE)
                     EXCEPT !.pc = "returned", !.returned = <<0>>]
    /\ UNCHANGED <<invocationVars, tool>>

NextCli ==
    \/ ImportMain
    \/ ParseArgs
    \/ ReadPrompt
    \/ CheckPrompt
    \/ RunAgent
    \/ PrintMessages

SpecCli == InitCli /\ [][NextCli]_vars

----------------------------------------------------------------------------
(* weather_agent.py and stock_market_agent.py run as scripts: main and its loop *)

\* the statuses that end the `while` loop of either script
StandaloneTerminal == {"completed", "failed", "cancelled"}

\* where main goes on a snapshot with the given status
ScriptBranch(status) ==
    IF status \in StandaloneTerminal THEN "finish"
    ELSE IF status = "requires_action" THEN "handle"
    ELSE "sleep_get"

\* the snapshots the service may return for the script's run: a status and,
\* on requires_action, the pending calls (or no required_action object)
ScriptSnapshots(tool_name) ==
    {[id |-> 3, status |-> st, required_action |-> [has |-> FALSE, tool_calls |-> <<>>]] :
        st \in FinalStatuses \cup {"queued", "in_progress", "requires_action"}}
      \cup {[id |-> 3, status |-> "requires_action",
             required_action |-> [has |-> TRUE, tool_calls |-> l]] :
              l \in {<<>>,
                     <<[id |-> "call-1", type |-> "function", name |-> tool_name]>>,
                     <<[id |-> "call-1", type |-> "code_interpreter", name |-> tool_name],
                       [id |-> "call-2", type |-> "function", name |-> tool_name]>>,
                     <<[id |-> "call-1", type |-> "function", name |-> "other_tool"]>>}}

\* one of the two scripts is started from the shell
InitScript ==
    /\ NoInvocation
    /\ tool = NoTool
    /\ script \in {[pc |-> "create", tool_name |-> n, run |-> NoRun, calls |-> <<>>,
                     raised |-> None] :
                       n \in {"get_weatherstack_weather", "fetch_intraday_stock_price"}}

\* main up to the loop: the agent, the thread, the message and the run are
\* created; any of the calls may raise
ScriptCreateRun ==
    /\ script.pc = "create"
    /\ \/ \E snapshot \in ScriptSnapshots(script.tool_name) :
            script' = [script EXCEPT
                          !.pc = ScriptBranch(snapshot.status), !.run = snapshot,
                          !.calls = <<Event("create_agent", 1, TRUE),
                                      Event("threads.create", 2, TRUE),
                                      Event("messages.create", [thread_id |-> 2], TRUE),
                                      Event("runs.create",
                                            [thread_id |-> 2, agent_id |-> 1, run |-> snapshot],
                                            TRUE)>>]
       \/ script' = [script EXCEPT !.pc = "done", !.raised = "RemoteError",
                                    !.calls = <<Event("create_agent", 0, FALSE)>>]
    /\ UNCHANGED invocationVars
    /\ UNCHANGED tool

\* the requires_action branch: the supported function calls are answered
\* and the outputs submitted, the submit returning the next snapshot
ScriptHandle ==
    /\ script.pc = "handle"
    /\ Len(script.calls) < 4 + 2 * MaxPolls
    /\ IF ~script.run.required_action.has
         THEN script' = [script EXCEPT !.pc = "done", !.raised = "AttributeError"]
         ELSE LET tool_calls == script.run.required_action.tool_calls
                  kept == SelectSeq(tool_calls,
                                    LAMBDA c : c.type = "function" /\ c.name = script.tool_name)
                  tool_outputs == [i \in 1..Len(kept) |-> ToolOutput(kept[i].id, "report")]
              IN IF tool_outputs = <<>>
                   THEN script' = [script EXCEPT !.pc = "done", !.raised = "RuntimeError"]
                   ELSE \/ \E snapshot \in ScriptSnapshots(script.tool_name) :
                            script' = [script EXCEPT
                                !.pc = ScriptBranch(snapshot.status), !.run = snapshot,
                                !.calls = Append(@, Event("runs.submit_tool_outputs",
                                    [thread_id |-> 2, run_id |-> script.run.id,
                                     tool_outputs |-> tool_outputs, run |-> snapshot], TRUE))]
                        \/ script' = [script EXCEPT
                                !.pc = "done", !.raised = "RemoteError",
                                !.calls = Append(@, Event("runs.submit_tool_outputs",
                                    [thread_id |-> 2, run_id |-> script.run.id,
                                     tool_outputs |-> tool_outputs, run |-> NoRun], FALSE))]
    /\ UNCHANGED invocationVars
    /\ UNCHANGED tool

\* the else branch: a sleep of one second, then the run is fetched again
ScriptSleepGet ==
    /\ script.pc = "sleep_get"
    /\ Len(script.calls) < 4 + 2 * MaxPolls
    /\ \/ \E snapshot \in ScriptSnapshots(script.tool_name) :
            script' = [script EXCEPT
                !.pc = ScriptBranch(snapshot.status), !.run = snapshot,
                !.calls = @ \o <<Event("time.sleep", 1, TRUE),
                                 Event("runs.get", [thread_id |-> 2, run_id |-> script.run.id,
                                                    run |-> snapshot], TRUE)>>]
       \/ script' = [script EXCEPT
                !.pc = "done", !.raised = "RemoteError",
                !.calls = @ \o <<Event("time.sleep", 1, TRUE),
                                 Event("runs.get", [thread_id |-> 2, run_id |-> script.run.id,
                                                    run |-> NoRun], FALSE)>>]
    /\ UNCHANGED invocationVars
    /\ UNCHANGED tool

\* after the loop: the status is printed and the thread's messages listed
ScriptFinish ==
    /\ script.pc = "finish"
    /\ \E ok \in BOOLEAN :
          script' = [script EXCEPT
              !.pc = "done", !.raised = IF ok THEN None ELSE "RemoteError",
              !.calls = Append(@, Event("messages.list", [thread_id |-> 2], ok))]
    /\ UNCHANGED invocationVars
    /\ UNCHANGED tool

NextScript == ScriptCreateRun \/ ScriptHandle \/ ScriptSleepGet \/ ScriptFinish

SpecScript == InitScript /\ [][NextScript]_vars

----------------------------------------------------------------------------
(* Reading the call log *)

Active == {p \in Invocations : pc[p] # "off"}

Idx(p) == 1..Len(log[p])

\* positions of the calls of operation op, failed ones included
Calls(p, op) == {i \in Idx(p) : log[p][i].op = op}

\* positions of the runs.get calls that returned a snapshot with a status in S
Fetched(p, S) ==
    {i \in Idx(p) : /\ log[p][i].op = "runs.get"
                    /\ log[p][i].ok
                    /\ log[p][i].arg.run.status \in S}

\* the statuses of the snapshots fetched so far, in order
RECURSIVE StatusScript(_, _)
StatusScript(p, n) ==
    IF n = 0 THEN <<>>
    ELSE IF log[p][n].op = "runs.get" /\ log[p][n].ok
           THEN Append(StatusScript(p, n - 1), log[p][n].arg.run.status)
           ELSE StatusScript(p, n - 1)

\* the groups of statuses other than the final ones
ActionStatus == {"requires_action"}
WaitStatuses == SnapshotStatuses \ (FinalStatuses \cup ActionStatus)

LoopCalls == {"runs.get", "handle_tool_calls", "runs.submit_tool_outputs", "time.sleep"}

----------------------------------------------------------------------------
(* Properties of the poll loop *)

\* C1: when the snapshots fetched by the poll loop end with the first terminal
\* one, the handler and submit_tool_outputs were each called exactly once per
\* requires_action snapshot (right after it), time.sleep exactly once per
\* other non-terminal snapshot (right after it), and the value the loop
\* returned is that terminal snapshot, field for field.
C1_ScriptedPollRun ==
    \A p \in Active : \A k \in Fetched(p, FinalStatuses) :
        /\ \A i \in Fetched(p, ActionStatus) :
              /\ i + 2 <= Len(log[p])
              /\ log[p][i + 1].op = "handle_tool_calls"
              /\ log[p][i + 2].op = "runs.submit_tool_outputs"
        /\ \A i \in Fetched(p, WaitStatuses) :
              /\ i + 1 <= Len(log[p])
              /\ log[p][i + 1].op = "time.sleep"
        /\ Cardinality(Calls(p, "handle_tool_calls")) = Cardinality(Fetched(p, ActionStatus))
        /\ Cardinality(Calls(p, "runs.submit_tool_outputs")) = Cardinality(Fetched(p, ActionStatus))
        /\ Cardinality(Calls(p, "time.sleep")) = Cardinality(Fetched(p, WaitStatuses))
        /\ run[p] = log[p][k].arg.run

\* the scripted run of the test: requires_action, in_progress, completed
C1_Witness ==
    /\ pc[1] = "returned"
    /\ StatusScript(1, Len(log[1])) = <<"requires_action", "in_progress", "completed">>

\* C2: once the handler has returned an empty output list for a
\* requires_action snapshot, the invocation fails with RuntimeError, and
\* neither submit_tool_outputs nor runs.get is called any more.
C2_EmptyOutputsAreFatal ==
    \A p \in Active : \A i \in Calls(p, "handle_tool_calls") :
        (log[p][i].ok /\ log[p][i].arg.outputs = <<>>) =>
            /\ raised[p] = "RuntimeError"
            /\ pc[p] \in {"exit_context", "raised"}
            /\ \A j \in Idx(p) : j > i => log[p][j].op = "close"
            /\ \A j \in Idx(p) : j >= i - 1 => log[p][j].op # "runs.submit_tool_outputs"

C2_Witness ==
    /\ pc[1] = "raised"
    /\ raised[1] = "RuntimeError"
    /\ \E i \in Calls(1, "handle_tool_calls") : log[1][i].arg.outputs = <<>>

\* C3: after a snapshot with status completed, failed, cancelled or expired
\* has been fetched, the loop has returned exactly that snapshot and makes no
\* further runs.get, handler, submit_tool_outputs or sleep call; whichever of
\* the four statuses it is, the next call is the message fetch.
C3_TerminalSnapshotEndsLoop ==
    \A p \in Active : \A i \in Fetched(p, FinalStatuses) :
        /\ \A j \in Idx(p) : j > i => log[p][j].op \notin LoopCalls
        /\ run[p] = log[p][i].arg.run
        /\ i = Len(log[p]) => (pc[p] = "list_messages" /\ raised[p] = None)
        /\ i < Len(log[p]) => log[p][i + 1].op = "messages.list"

\* a failed run is handed to the caller as an ordinary result
C3_Witness ==
    /\ pc[1] = "returned"
    /\ result[1].run_status = "expired"
    /\ Fetched(1, {"expired"}) # {}

\* C4: after a snapshot whose status is neither terminal nor requires_action
\* (queued, in_progress, an unknown one, or none at all) the loop does not
\* raise and calls neither the handler nor submit_tool_outputs: its next call
\* is one time.sleep of the configured interval, and the one after that is
\* runs.get.
C4_OtherStatusesWaitAndRetry ==
    \A p \in Active : \A i \in Fetched(p, WaitStatuses) :
        /\ i = Len(log[p]) => (pc[p] = "poll_sleep" /\ raised[p] = None)
        /\ i < Len(log[p]) =>
              /\ log[p][i + 1].op = "time.sleep"
              /\ log[p][i + 1].arg = args[p].poll_interval_seconds
        /\ i + 1 = Len(log[p]) => (pc[p] = "poll_get" /\ raised[p] = None)
        /\ i + 1 < Len(log[p]) => log[p][i + 2].op = "runs.get"

\* a snapshot without a status attribute, an unknown status and a polling
\* status were each waited for
C4_Witness ==
    /\ StatusScript(1, Len(log[1])) = <<NoAttr, "cancelling", "queued">>
    /\ pc[1] = "poll_get"
    /\ args[1].poll_interval_seconds = 2

\* C5: the call after a successful submit_tool_outputs is runs.get for the
\* thread and run the loop was started with (never a sleep), and every
\* handler call and every sleep comes right after a runs.get, which itself
\* comes right after the loop entry, a sleep or a submit.
C5_SubmitThenFetch ==
    \A p \in Active :
        /\ \A i \in Calls(p, "runs.submit_tool_outputs") : log[p][i].ok =>
              /\ i = Len(log[p]) => pc[p] = "poll_get"
              /\ i < Len(log[p]) =>
                    /\ log[p][i + 1].op = "runs.get"
                    /\ log[p][i + 1].arg.thread_id = frame[p].thread_id
                    /\ log[p][i + 1].arg.run_id = frame[p].run_id
        /\ \A i \in Calls(p, "handle_tool_calls") \cup Calls(p, "time.sleep") :
              /\ i > 1
              /\ log[p][i - 1].op = "runs.get"
        /\ \A i \in Calls(p, "runs.get") :
              /\ i > 1
              /\ log[p][i - 1].op \in
                    {"_poll_run_with_tools", "time.sleep", "runs.submit_tool_outputs"}
              /\ log[p][i].arg.thread_id = thread[p].id
              /\ log[p][i].arg.run_id = run[p].id

C5_Witness ==
    \E i \in Calls(1, "runs.submit_tool_outputs") :
        /\ i < Len(log[1])
        /\ log[1][i + 1].op = "runs.get"
        /\ log[1][i + 1].ok

----------------------------------------------------------------------------
(* Properties of run_agent_interaction *)

\* C6: an invocation with an empty user_input, once past its first statement,
\* has raised ValueError without opening the client context and without
\* creating an agent, a thread, a message or a run.
C6_EmptyInputRejectedFirst ==
    \A p \in Active : (args[p].user_input = "" /\ pc[p] # "start") =>
        /\ pc[p] = "raised"
        /\ raised[p] = "ValueError"
        /\ client[p] = "unopened"
        /\ log[p] = <<>>
        /\ agent[p].id = 0 /\ thread[p].id = 0 /\ run[p].id = 0
        /\ remoteSeq = 0 /\ remoteAgents = {} /\ DOMAIN remoteThreads = {}

C6_Witness ==
    /\ args[1].user_input = ""
    /\ pc[1] = "raised"
    /\ raised[1] = "ValueError"

\* C7: an invocation with a non-empty user_input and no tool handler never
\* calls runs.create, the poll loop, runs.get, the handler,
\* submit_tool_outputs or time.sleep, and once the user message is posted and
\* the run is started it was started by exactly one runs.create_and_process.
C7_NoHandlerAutoProcesses ==
    \A p \in Active : (args[p].user_input # "" /\ args[p].handle_tool_calls = None) =>
        /\ \A i \in Idx(p) :
              log[p][i].op \notin (LoopCalls \cup {"runs.create", "_poll_run_with_tools"})
        /\ Cardinality(Calls(p, "runs.create_and_process")) <= 1
        /\ \A i \in Calls(p, "messages.create") :
              (log[p][i].ok /\ pc[p] # "start_run") =>
                  /\ i < Len(log[p])
                  /\ log[p][i + 1].op = "runs.create_and_process"

C7_Witness ==
    /\ args[1].user_input = " "
    /\ args[1].handle_tool_calls = None
    /\ pc[1] = "returned"
    /\ Calls(1, "runs.create_and_process") # {}

\* C8: an invocation with a tool handler never calls create_and_process; it
\* starts the run with runs.create and enters the poll loop at most once,
\* right after runs.create returned, with the created thread's id, the
\* created run's id, the handler it was given and the configured poll
\* interval; and the message fetch is preceded directly by the runs.get that
\* returned the terminal snapshot the loop handed back.
C8_HandlerRunsThroughPollLoop ==
    \A p \in Active : args[p].handle_tool_calls # None =>
        /\ Calls(p, "runs.create_and_process") = {}
        /\ Cardinality(Calls(p, "_poll_run_with_tools")) <= 1
        /\ Cardinality(Calls(p, "runs.create")) <= 1
        /\ \A i \in Calls(p, "runs.create") : log[p][i].ok =>
              /\ i < Len(log[p])
              /\ log[p][i + 1].op = "_poll_run_with_tools"
              /\ log[p][i + 1].arg.thread_id = thread[p].id
              /\ log[p][i + 1].arg.thread_id = log[p][i].arg.thread_id
              /\ log[p][i + 1].arg.run_id = log[p][i].arg.run_id
              /\ log[p][i + 1].arg.handle_tool_calls = args[p].handle_tool_calls
              /\ log[p][i + 1].arg.poll_interval = args[p].poll_interval_seconds
        /\ \A i \in Calls(p, "_poll_run_with_tools") :
              i > 1 /\ log[p][i - 1].op = "runs.create" /\ log[p][i - 1].ok
        /\ \A k \in Calls(p, "messages.list") :
              /\ k - 1 \in Fetched(p, FinalStatuses)
              /\ run[p] = log[p][k - 1].arg.run
              /\ Cardinality(Calls(p, "_poll_run_with_tools")) = 1

C8_Witness ==
    /\ args[1].handle_tool_calls = "handler_b"
    /\ args[1].poll_interval_seconds = 2
    /\ pc[1] = "returned"
    /\ Calls(1, "handle_tool_calls") # {}

\* C9: the client is opened before any other call and is closed on every
\* exit path: in every state the first logged call is the opening, nothing is
\* called after the closing, the client is open exactly between the two, and
\* an invocation that has returned or raised after it entered the context has
\* closed the client, whatever exception (remote failure, RuntimeError,
\* handler exception, hook exception) ended it.
C9_ClientScopedToInvocation ==
    \A p \in Active :
        /\ log[p] # <<>> => log[p][1].op = "open"
        /\ Cardinality(Calls(p, "open")) <= 1
        /\ \A i \in Calls(p, "close") : i = Len(log[p])
        /\ client[p] = "unopened" <=> log[p] = <<>>
        /\ client[p] = "closed" <=> Calls(p, "close") # {}
        /\ (pc[p] \in {"returned", "raised"} /\ args[p].user_input # "") =>
              /\ client[p] = "closed"
              /\ log[p][1].op = "open"
              /\ log[p][Len(log[p])].op = "close"
        /\ raised[p] \notin {None, "ValueError"} => pc[p] \in {"exit_context", "raised"}

\* the handler made the poll loop raise, and the client was closed
C9_Witness ==
    /\ pc[1] = "raised"
    /\ raised[1] = "HandlerError"
    /\ client[1] = "closed"

\* C10: the hook is only ever called after a successful message fetch, with
\* the client open and the assembled RunResult; and in an invocation that
\* returned, the run's final snapshot came first, then the one message fetch,
\* then (if a hook was supplied) the one hook call, then the closing of the
\* client; without a hook there is no hook call.
C10_PostRunOrder ==
    \A p \in Active :
        /\ \A h \in Calls(p, "post_run_hook") :
              /\ args[p].post_run_hook # None
              /\ h > 1
              /\ log[p][h - 1].op = "messages.list" /\ log[p][h - 1].ok
              /\ log[p][h].arg.client = "open"
              /\ log[p][h].arg.result = result[p]
              /\ result[p] = AgentRunResult(agent[p], thread[p], run[p], messages[p])
              /\ \A c \in Calls(p, "close") : h < c
        /\ pc[p] = "returned" =>
              /\ Cardinality(Calls(p, "messages.list")) = 1
              /\ Cardinality(Calls(p, "post_run_hook")) =
                    (IF args[p].post_run_hook # None THEN 1 ELSE 0)
              /\ \A m \in Calls(p, "messages.list") :
                    /\ log[p][m - 1].op \in {"runs.get", "runs.create_and_process"}
                    /\ log[p][m - 1].arg.run_id = run[p].id
                    /\ result[p].run_status = GetStatus(run[p])
                    /\ \A c \in Calls(p, "close") : m < c
                    /\ args[p].post_run_hook # None => log[p][m + 1].op = "post_run_hook"

C10_Witness ==
    /\ pc[1] = "returned"
    /\ args[1].post_run_hook # None
    /\ args[1].handle_tool_calls # None
    /\ Calls(1, "post_run_hook") # {}

----------------------------------------------------------------------------
(* Properties of the weather handler *)

\* the pending calls of the snapshot fetched in the poll cycle of the submit at i
PendingAt(p, i) == GetToolCalls(log[p][i - 2].arg.run)

\* C11: every tool output submitted to the run carries the id of a tool call
\* in the pending list of the snapshot fetched in the same poll cycle, and
\* never an empty id.
C11_OutputIdsFromSameCycle ==
    \A p \in Active : \A i \in Calls(p, "runs.submit_tool_outputs") :
        /\ i > 2
        /\ log[p][i - 2].op = "runs.get"
        /\ \A k \in 1..Len(log[p][i].arg.tool_outputs) :
              /\ log[p][i].arg.tool_outputs[k].tool_call_id # ""
              /\ \E c \in 1..Len(PendingAt(p, i)) :
                    PendingAt(p, i)[c].id = log[p][i].arg.tool_outputs[k].tool_call_id

\* the handler calls of the weather handler
WeatherHandled(p) ==
    {i \in Calls(p, "handle_tool_calls") : log[p][i].arg.handler = WeatherHandler}

\* a pending call the weather agent implements: a function call by the name
\* of its tool
Known(call) == call.type = "function" /\ call.name = "get_weatherstack_weather"

KnownIn(tool_calls) == {c \in 1..Len(tool_calls) : Known(tool_calls[c])}

\* C12 as stated: a requires_action snapshot with skipped calls, some or all
\* of its pending calls, never makes the run fail for want of outputs.
C12_SkippedCallsNeverFailRun ==
    \A p \in Active : \A i \in WeatherHandled(p) :
        (log[p][i].ok /\ KnownIn(log[p][i].arg.tool_calls) # 1..Len(log[p][i].arg.tool_calls))
            => raised[p] # "RuntimeError"

\* C12, amended: the handler passes over a call of another type or name
\* without dispatching it, without an output for it and without raising; when
\* it returns having dispatched at least one call, its outputs are submitted
\* whatever was skipped; when every pending call was skipped it returns no
\* outputs, and the poll loop raises RuntimeError and submits nothing.
C12_SkippedCallsFailOnlyWhenAllSkipped ==
    \A p \in Active : \A i \in WeatherHandled(p) :
        LET tool_calls == log[p][i].arg.tool_calls
            outputs == log[p][i].arg.outputs
            trace == log[p][i].arg.trace
        IN /\ \A t \in 1..Len(trace) :
                 ~Known(tool_calls[trace[t].index]) =>
                    /\ trace[t].did = "skipped"
                    /\ \A k \in 1..Len(outputs) :
                          outputs[k].tool_call_id # tool_calls[trace[t].index].id
           /\ (log[p][i].ok /\ KnownIn(tool_calls) # {}) =>
                 /\ outputs # <<>>
                 /\ i = Len(log[p]) => (pc[p] = "poll_submit" /\ raised[p] = None)
                 /\ i < Len(log[p]) =>
                       /\ log[p][i + 1].op = "runs.submit_tool_outputs"
                       /\ log[p][i + 1].arg.tool_outputs = outputs
           /\ KnownIn(tool_calls) = {} =>
                 /\ log[p][i].ok
                 /\ Len(trace) = Len(tool_calls)
                 /\ outputs = <<>>
                 /\ raised[p] = "RuntimeError"
                 /\ \A j \in Idx(p) : j > i => log[p][j].op = "close"

\* a list with two skipped calls around a dispatched one was handled and its
\* one output submitted, and the run went on to its end
C12_Witness ==
    /\ pc[1] = "returned"
    /\ \E i \in WeatherHandled(1) :
          /\ log[1][i].arg.tool_calls = <<WeatherCalls.k3, WeatherCalls.k1, WeatherCalls.k4>>
          /\ Len(log[1][i].arg.outputs) = 1
          /\ log[1][i + 1].op = "runs.submit_tool_outputs"
          /\ log[1][i + 1].ok

\* the position in tool_calls of the k-th call the weather agent implements
KnownAt(tool_calls, k) ==
    CHOOSE c \in KnownIn(tool_calls) :
        Cardinality({d \in KnownIn(tool_calls) : d <= c}) = k

\* C13: the weather handler returns exactly one output per pending call of
\* type function and name get_weatherstack_weather, in the order of the
\* pending calls, each made of that call's id and the string the tool
\* function returned for it; the tool function is invoked once for each such
\* call, with the location and date decoded from its arguments, and for no
\* other call.
C13_OneOutputPerWeatherCall ==
    \A p \in Active : \A i \in WeatherHandled(p) :
        LET tool_calls == log[p][i].arg.tool_calls
            outputs == log[p][i].arg.outputs
            trace == log[p][i].arg.trace
            invoked == {t \in 1..Len(trace) : trace[t].did = "invoked"}
        IN /\ log[p][i].ok
           /\ Len(outputs) = Cardinality(KnownIn(tool_calls))
           /\ {trace[t].index : t \in invoked} = KnownIn(tool_calls)
           /\ Cardinality(invoked) = Cardinality(KnownIn(tool_calls))
           /\ \A k \in 1..Len(outputs) :
                 /\ outputs[k].tool_call_id = tool_calls[KnownAt(tool_calls, k)].id
                 /\ \E t \in invoked :
                       /\ trace[t].index = KnownAt(tool_calls, k)
                       /\ trace[t].result.raised = None
                       /\ outputs[k].output = trace[t].result.value
           /\ \A t \in invoked :
                 tool_calls[trace[t].index].arguments = SeattleArguments =>
                    (trace[t].location = "Seattle" /\ trace[t].date = "2025-05-01")

\* the argument texts of the pending calls that are not JSON
NotJson == {"{bad", "location=Seattle"}

\* C14: a dispatched call whose argument text is not valid JSON does not make
\* the handler raise: the tool function is invoked for it with an empty
\* location and no date, returns "Missing location." without a request to the
\* provider, and that string, with the call's id, is the call's output.
C14_InvalidJsonArgumentsFailSoft ==
    \A p \in Active : \A i \in WeatherHandled(p) :
        LET tool_calls == log[p][i].arg.tool_calls
            outputs == log[p][i].arg.outputs
            trace == log[p][i].arg.trace
        IN \A c \in KnownIn(tool_calls) : tool_calls[c].arguments \in NotJson =>
              /\ \/ \E t \in 1..Len(trace) : trace[t].index = c
                 \/ \E t \in 1..Len(trace) :
                       trace[t].index < c /\ trace[t].result.raised # None
              /\ \A t \in 1..Len(trace) : trace[t].index = c =>
                    /\ trace[t].did = "invoked"
                    /\ trace[t].location = ""
                    /\ trace[t].date = None
                    /\ ~trace[t].requested
                    /\ trace[t].result = Returns("Missing location.")
                    /\ log[p][i].ok =>
                          \E k \in 1..Len(outputs) :
                              outputs[k] = ToolOutput(tool_calls[c].id, "Missing location.")

\* two calls with argument texts that are not JSON were answered with
\* "Missing location." and submitted, although the provider was unreachable
C14_Witness ==
    /\ tool.provider = ProviderFailure("request_exception", "boom")
    /\ \E i \in WeatherHandled(1) :
          /\ log[1][i].ok
          /\ log[1][i].arg.outputs =
                <<ToolOutput("call-2", "Missing location."),
                  ToolOutput("call-7", "Missing location."),
                  ToolOutput("call-9", "Missing location.")>>
          /\ i < Len(log[1])
          /\ log[1][i + 1].op = "runs.submit_tool_outputs"

----------------------------------------------------------------------------
(* Properties of the tool functions *)

\* C15: a call of get_weatherstack_weather or fetch_intraday_stock_price
\* never raises: whatever the provider answers and whatever arguments are
\* missing, it returns a descriptive (non-empty) string.
C15_ToolFunctionsNeverRaise ==
    tool.pc = "done" =>
        /\ tool.result.raised = None
        /\ tool.result.value # ""

\* sub occurs in s
Contains(s, sub) ==
    \E i \in 0..(Len(s) - Len(sub)) : SubSeq(s, i + 1, i + Len(sub)) = sub

\* a response of the provider that reports conditions: no error member, a
\* location object or none, and a current object whose temperature and
\* humidity are numbers and whose weather_descriptions is a list of strings
WellFormedResponse(pr) ==
    /\ pr.kind = "json"
    /\ pr.t = "object"
    /\ pr.error.t = "absent"
    /\ pr.location.t \in {"absent", "object"}
    /\ pr.current.t = "object"
    /\ pr.current.temperature.t \in {"int", "float"}
    /\ pr.current.humidity.t \in {"int", "float"}
    /\ pr.current.weather_descriptions.t = "list"

\* the texts expected in the summary, written out by hand
ExpectedTemperature(te) ==
    CASE te = JInt(12) -> "12.0°C"
      [] te = JInt(-3) -> "-3.0°C"
      [] te = JFloat(125) -> "12.5°C"
      [] te = JFloat(-5) -> "-0.5°C"

ExpectedHumidity(hu) ==
    CASE hu = JInt(75) -> "75%"
      [] hu = JFloat(759) -> "75%"

ExpectedConditions(de) ==
    CASE de = <<"Light rain", "Windy">> -> "Light rain, Windy"
      [] de = <<"", "Snow">> -> "Snow"
      [] de = <<"">> -> "Unknown conditions"
      [] de = <<>> -> "Unknown conditions"

ExpectedTitle(query) ==
    CASE query = "seattle" -> "Seattle"
      [] query = "new york" -> "New York"
      [] query = "SAN jose" -> "San Jose"

ExpectedName(lo, query) ==
    IF lo.t = "object" /\ lo.name \notin {NoAttr, ""} THEN lo.name ELSE ExpectedTitle(query)

\* C20: for a provider response with well-formed temperature, humidity and
\* weather_descriptions, get_weatherstack_weather returns a summary that
\* contains the resolved location name (the provider's, else the title-cased
\* query), the temperature with one decimal and °C, the non-empty
\* descriptions joined by ", ", and the humidity followed by %; for the
\* Seattle payload it contains "Seattle", "12.0°C", "Light rain, Windy", "75%".
C20_WellFormedResponseSummarised ==
    (/\ tool.pc = "done"
     /\ tool.fn = "get_weatherstack_weather"
     /\ tool.location # ""
     /\ WellFormedResponse(tool.provider)) =>
        /\ tool.result.raised = None
        /\ Contains(tool.result.value, ExpectedName(tool.provider.location, tool.location))
        /\ Contains(tool.result.value, ExpectedTemperature(tool.provider.current.temperature))
        /\ Contains(tool.result.value,
                    "°C, " \o ExpectedConditions(tool.provider.current.weather_descriptions.v))
        /\ Contains(tool.result.value, ExpectedHumidity(tool.provider.current.humidity))
        /\ tool.provider = Payload(JAbsent, SeattleLocation,
                                   CurrentObject(JInt(12), JInt(75),
                                                 Descriptions(<<"Light rain", "Windy">>))) =>
              /\ Contains(tool.result.value, "Seattle")
              /\ Contains(tool.result.value, "12.0°C")
              /\ Contains(tool.result.value, "Light rain, Windy")
              /\ Contains(tool.result.value, "75%")

\* the Seattle payload was summarised for the query "seattle"
C20_Witness ==
    /\ tool.pc = "done"
    /\ tool.location = "seattle"
    /\ tool.date = None
    /\ tool.provider = Payload(JAbsent, SeattleLocation,
                               CurrentObject(JInt(12), JInt(75),
                                             Descriptions(<<"Light rain", "Windy">>)))
    /\ tool.result = Returns("Weather for Seattle on 2025-05-01: 12.0°C, Light rain, Windy, humidity 75%. Data source: Weatherstack live API. Country: USA")

----------------------------------------------------------------------------
(* Failures, deletion and termination *)

\* the calls of run_agent_interaction and its poll loop to the remote service
RemoteCalls ==
    {"create_agent", "threads.create", "messages.create", "runs.create",
     "runs.create_and_process", "runs.get", "runs.submit_tool_outputs",
     "messages.list", "delete_agent"}

StartsRun == {"runs.create", "runs.create_and_process"}

\* C16: a failed remote call of run_agent_interaction goes to the caller
\* without a retry: the agent, the thread, the user message and the run are
\* each created at most once, in this order, and after a failed remote call
\* the invocation makes no call other than closing the client.
C16_RemoteFailurePropagates ==
    \A p \in Active :
        /\ \A op \in {"create_agent", "threads.create", "messages.create"} :
              Cardinality(Calls(p, op)) <= 1
        /\ Cardinality({i \in Idx(p) : log[p][i].op \in StartsRun}) <= 1
        /\ \A i \in Calls(p, "threads.create") :
              \E j \in Calls(p, "create_agent") : j < i /\ log[p][j].ok
        /\ \A i \in Calls(p, "messages.create") :
              \E j \in Calls(p, "threads.create") : j < i /\ log[p][j].ok
        /\ \A i \in Idx(p) : log[p][i].op \in StartsRun =>
              \E j \in Calls(p, "messages.create") : j < i /\ log[p][j].ok
        /\ \A i \in Idx(p) : (log[p][i].op \in RemoteCalls /\ ~log[p][i].ok) =>
              /\ raised[p] = "RemoteError"
              /\ pc[p] \in {"exit_context", "raised"}
              /\ i = Len(log[p]) => pc[p] = "exit_context"
              /\ \A j \in Idx(p) : j > i => (log[p][j].op = "close" /\ j = i + 1)
              /\ pc[p] = "raised" <=> i < Len(log[p])

\* a failed submit of tool outputs has reached the caller
C16_Witness ==
    /\ pc[1] = "raised"
    /\ raised[1] = "RemoteError"
    /\ \E i \in Calls(1, "runs.submit_tool_outputs") : ~log[1][i].ok
    /\ Cardinality(Calls(1, "create_agent")) = 1

\* the invocation is over: it has returned or raised to its caller
Over(p) == pc[p] \in {"returned", "raised"}

\* the steps before the deletion went through: the messages were fetched
\* and the hook, if there is one, returned
ReachedDeletion(p) ==
    /\ \E i \in Calls(p, "messages.list") : log[p][i].ok
    /\ Supplied(args[p].post_run_hook) => \E i \in Calls(p, "post_run_hook") : log[p][i].ok

\* C17: delete_agent is called at most once, with the id of the agent the
\* invocation created and right after the post-run hook (or after the message
\* fetch when there is no hook); an invocation that is over has called it if
\* and only if auto_delete_agent is true and the run, the message fetch and
\* the hook went through. With auto_delete_agent false, or when the poll loop
\* or the hook raised, the agent is still there.
C17_DeleteAgentOnlyAfterSuccess ==
    \A p \in Active :
        /\ Cardinality(Calls(p, "delete_agent")) <= 1
        /\ \A i \in Calls(p, "delete_agent") :
              /\ args[p].auto_delete_agent
              /\ agent[p] # NoAgent
              /\ log[p][i].arg = agent[p].id
              /\ i > 1
              /\ log[p][i - 1].ok
              /\ log[p][i - 1].op =
                    (IF Supplied(args[p].post_run_hook) THEN "post_run_hook" ELSE "messages.list")
              /\ \A j \in 1..(i - 1) : log[p][j].ok
        /\ Over(p) =>
              (Calls(p, "delete_agent") # {} <=>
                  (args[p].auto_delete_agent /\ ReachedDeletion(p)))
        /\ (Over(p) /\ agent[p] # NoAgent
              /\ (~args[p].auto_delete_agent
                    \/ raised[p] \in {"HandlerError", "RuntimeError", "HookError"})) =>
              /\ Calls(p, "delete_agent") = {}
              /\ agent[p].id \in remoteAgents

\* the agent was deleted after the hook had returned
C17_Witness ==
    /\ pc[1] = "returned"
    /\ Supplied(args[1].post_run_hook)
    /\ \E i \in Calls(1, "delete_agent") :
          /\ log[1][i].ok
          /\ log[1][i - 1].op = "post_run_hook"
    /\ agent[1].id \notin remoteAgents

LoopPositions == {"poll_get", "poll_handle", "poll_submit", "poll_sleep"}

\* the poll loop has handed back a snapshot in a final status
LoopReturned(p) ==
    /\ pc[p] \notin LoopPositions
    /\ raised[p] = None
    /\ run[p].status \in FinalStatuses
    /\ Fetched(p, FinalStatuses) # {}

\* C18: when the remote run makes progress (runs.get and the submits go
\* through and a fetch eventually finds a final status) and the handler
\* returns outputs for every requires_action snapshot, a poll loop that has
\* been entered eventually returns.
C18_PollLoopReturns ==
    \A p \in Invocations : (pc[p] \in LoopPositions) ~> LoopReturned(p)

\* the loop returned an expired run after a tool cycle and a wait
C18_Witness ==
    /\ LoopReturned(1)
    /\ StatusScript(1, Len(log[1])) = <<"requires_action", "queued", "expired">>
    /\ Cardinality(Calls(1, "runs.submit_tool_outputs")) = 1
    /\ Cardinality(Calls(1, "time.sleep")) = 1

\* the poll loop was entered and every fetch so far found the run in a
\* polling or an unknown status
StuckRemote(p) ==
    /\ \E i \in Idx(p) : log[p][i].op = "_poll_run_with_tools"
    /\ \A i \in Calls(p, "runs.get") :
          log[p][i].ok /\ log[p][i].arg.run.status \in WaitStatuses

\* C19: the poll loop has no maximum iteration count and no deadline: as long
\* as the remote run stays in polling or unknown statuses the loop keeps
\* fetching and sleeping, one sleep per fetch, and neither returns nor
\* raises, however many fetches have been made, so run_agent_interaction has
\* not returned either.
C19_StuckRunIsPolledWithoutLimit ==
    \A p \in Active : StuckRemote(p) =>
        /\ pc[p] \in {"poll_get", "poll_sleep"}
        /\ raised[p] = None
        /\ result[p] = NoResult
        /\ run[p].status \notin FinalStatuses
        /\ Calls(p, "handle_tool_calls") \cup Calls(p, "runs.submit_tool_outputs") = {}
        /\ pc[p] = "poll_get" =>
              Cardinality(Calls(p, "time.sleep")) = Cardinality(Calls(p, "runs.get"))
        /\ pc[p] = "poll_sleep" =>
              Cardinality(Calls(p, "time.sleep")) + 1 = Cardinality(Calls(p, "runs.get"))
        /\ \A i \in Calls(p, "time.sleep") :
              i < Len(log[p]) => log[p][i + 1].op = "runs.get"

\* as many fetches as the model permits, the run still queued or in
\* progress: the loop is about to fetch again
C19_Witness ==
    /\ StuckRemote(1)
    /\ Cardinality(Calls(1, "runs.get")) = MaxPolls
    /\ Cardinality(Calls(1, "time.sleep")) = MaxPolls
    /\ pc[1] = "poll_get"

----------------------------------------------------------------------------
(* Properties of the command line *)

ScriptCalls(op) == {i \in 1..Len(script.calls) : script.calls[i].op = op}

ScriptOver == script.pc \in {"returned", "raised"}

\* the text supplied as the prompt: the --prompt value, else the line typed,
\* else (input interrupted, or nothing asked) nothing
SuppliedText ==
    IF script.prompt_arg # None /\ script.prompt_arg # "" THEN script.prompt_arg
    ELSE IF \E i \in ScriptCalls("input") : script.calls[i].ok
      THEN script.calls[CHOOSE i \in ScriptCalls("input") : TRUE].arg.value
    ELSE ""

InputEnded == \E i \in ScriptCalls("input") : script.calls[i].arg.raised = "EOFError"

\* C21: the command line returns exit code 1 when no prompt is supplied (the
\* --prompt value or the typed line is empty or blank after stripping, an
\* interrupted input included) and then never invokes the runner; otherwise
\* it invokes the runner exactly once, with the stripped prompt, and returns 0.
C21_CliExitCode ==
    (ScriptOver /\ ~InputEnded) =>
        IF Strip(SuppliedText) = ""
          THEN /\ script.returned = <<1>>
               /\ ScriptCalls("runner") = {}
          ELSE /\ Cardinality(ScriptCalls("runner")) = 1
               /\ \A i \in ScriptCalls("runner") :
                     script.calls[i].arg.user_input = Strip(SuppliedText)
               /\ script.returned = <<0>>

----------------------------------------------------------------------------
(* Properties of concurrent invocations *)

\* the ids an invocation holds once its calls returned them
OwnAgent(p) == agent[p].id
OwnThread(p) == thread[p].id
OwnRuns(p) ==
    {log[p][i].arg.run_id :
        i \in {j \in 1..Len(log[p]) :
                  log[p][j].op \in {"runs.create", "runs.create_and_process"}}}

\* the ids a call of the invocation addresses are its own
UsesOwnIds(p, e) ==
    /\ e.op \in {"messages.create", "messages.list"} => e.arg.thread_id = OwnThread(p)
    /\ e.op \in {"runs.create", "runs.create_and_process"} =>
          e.arg.thread_id = OwnThread(p) /\ e.arg.agent_id = OwnAgent(p)
    /\ e.op \in {"runs.get", "runs.submit_tool_outputs"} =>
          e.arg.thread_id = OwnThread(p) /\ e.arg.run_id \in OwnRuns(p)
    /\ e.op = "delete_agent" => e.arg = OwnAgent(p)

\* the replies the service wrote for the invocation's own run
OwnReplies(p) ==
    Cardinality({i \in 1..Len(log[p]) :
        /\ log[p][i].ok
        /\ \/ log[p][i].op = "runs.create_and_process"
           \/ log[p][i].op = "runs.get" /\ log[p][i].arg.run.status = "completed"})

\* the thread an invocation reads when it runs alone: its input, then the
\* replies to its run
AloneMessages(p) ==
    <<[role |-> "user", content |-> args[p].user_input]>>
        \o [i \in 1..OwnReplies(p) |-> [role |-> "assistant", content |-> "All done"]]

\* C22: two concurrent invocations share no mutable state: each creates its
\* own agent and thread, every call it makes addresses only the agent, thread
\* and run ids it created, and its RunResult is the one it returns when it
\* runs alone
C22_ConcurrentInvocationsIsolated ==
    \A p \in Invocations :
        /\ \A q \in Invocations \ {p} :
              /\ OwnAgent(p) # 0 => OwnAgent(p) # OwnAgent(q)
              /\ OwnThread(p) # 0 => OwnThread(p) # OwnThread(q)
              /\ (OwnRuns(p) \ {0}) \cap OwnRuns(q) = {}
        /\ \A i \in 1..Len(log[p]) : UsesOwnIds(p, log[p][i])
        /\ result[p] # NoResult =>
              result[p] = AgentRunResult(agent[p], thread[p], run[p], AloneMessages(p))

\* both invocations returned a result, their creations interleaved, and the
\* first submitted tool outputs while the second's thread existed
C22_Witness ==
    /\ result[1] # NoResult
    /\ result[2] # NoResult
    /\ OwnAgent(1) < OwnAgent(2)
    /\ OwnThread(2) < OwnThread(1)
    /\ \E i \in 1..Len(log[1]) : log[1][i].op = "runs.submit_tool_outputs" /\ log[1][i].ok
    /\ \E i \in 1..Len(log[2]) : log[2][i].op = "delete_agent" /\ log[2][i].ok

----------------------------------------------------------------------------
(* Properties of the poll loops *)

\* the call returned a snapshot of the run to the loop, with a terminal status
ReturnedTerminal(e, ops) ==
    /\ e.op \in ops
    /\ e.ok
    /\ GetStatus(e.arg.run) \in TerminalStatuses

\* no call of the loop follows the i-th call of the sequence
LoopEndedAt(calls, i) ==
    \A j \in (i + 1)..Len(calls) : calls[j].op \notin LoopCalls

\* C23: every poll loop (the shared _poll_run_with_tools and the loops of the
\* weather and stock-market scripts) treats completed, failed, cancelled and
\* expired as terminal: once the run has one of these statuses the loop ends
\* without a further fetch, submit or sleep
C23_EveryLoopEndsOnTerminalStatus ==
    /\ \A p \in Invocations : \A i \in 1..Len(log[p]) :
          ReturnedTerminal(log[p][i], {"runs.get"}) => LoopEndedAt(log[p], i)
    /\ \A i \in 1..Len(script.calls) :
          ReturnedTerminal(script.calls[i],
                           {"runs.create", "runs.get", "runs.submit_tool_outputs"})
              => LoopEndedAt(script.calls, i)

\* the (thread id, run id) pair the loop of the invocation was asked to poll:
\* the thread and the run that run_agent_interaction created
AskedToPoll(p, e) ==
    \E j \in 1..Len(log[p]) :
        /\ log[p][j].op = "runs.create"
        /\ log[p][j].ok
        /\ log[p][j].arg.thread_id = e.arg.thread_id
        /\ log[p][j].arg.run_id = e.arg.run_id

\* C24: every submit_tool_outputs call of the poll loop addresses the
\* (thread id, run id) pair the loop was asked to poll and passes the list the
\* handler returned, unmodified: the same elements in the same order
C24_SubmitPassesHandlerOutputsToPolledRun ==
    \A p \in Invocations : \A i \in 1..Len(log[p]) :
        log[p][i].op = "runs.submit_tool_outputs" =>
            /\ i > 2
            /\ AskedToPoll(p, log[p][i])
            /\ log[p][i - 2].op = "runs.get"
            /\ log[p][i - 2].arg.thread_id = log[p][i].arg.thread_id
            /\ log[p][i - 2].arg.run_id = log[p][i].arg.run_id
            /\ log[p][i - 1].op = "handle_tool_calls"
            /\ log[p][i - 1].ok
            /\ log[p][i].arg.tool_outputs = log[p][i - 1].arg.outputs

\* a handler returned two outputs and the submit of them was accepted
C24_Witness ==
    \E i \in 1..Len(log[1]) :
        /\ log[1][i].op = "runs.submit_tool_outputs"
        /\ log[1][i].ok
        /\ Len(log[1][i].arg.tool_outputs) = 2
        /\ log[1][i].arg.tool_outputs[1] # log[1][i].arg.tool_outputs[2]

----------------------------------------------------------------------------
(* Properties of the result *)

\* the run the invocation started, as the service returned it
StartedRuns(p) ==
    {log[p][i].arg.run_id :
        i \in {j \in Idx(p) : /\ log[p][j].op \in {"runs.create", "runs.create_and_process"}
                              /\ log[p][j].ok}}

\* the status attribute of the final snapshot: of the last one the poll loop
\* fetched, or of the run create_and_process returned
FinalSnapshotStatus(p) ==
    IF Supplied(args[p].handle_tool_calls)
      THEN LET last == CHOOSE i \in Gets(p) : \A j \in Gets(p) : j <= i
           IN log[p][last].arg.run.status
      ELSE run[p].status

\* C25: when run_agent_interaction returns normally, the RunResult carries the
\* ids of the agent, thread and run created in that invocation and the
\* messages fetched from that thread, and its run_status is the status of the
\* final snapshot: one of completed, failed, cancelled, expired when a handler
\* was supplied, and "unknown" when the final snapshot has no status attribute
C25_RunResultOfReturnedInvocation ==
    \A p \in Invocations :
        pc[p] = "returned" =>
            /\ \E i \in Calls(p, "create_agent") : log[p][i].ok
            /\ \E i \in Calls(p, "threads.create") : log[p][i].ok
            /\ result[p].agent_id = agent[p].id
            /\ result[p].agent_id \notin {0, result[p].thread_id, result[p].run_id}
            /\ result[p].agent_name = AgentConfig.name
            /\ result[p].thread_id = thread[p].id
            /\ result[p].thread_id \notin {0, result[p].run_id}
            /\ StartedRuns(p) = {result[p].run_id}
            /\ result[p].run_id # 0
            /\ \E i \in Calls(p, "messages.list") :
                  /\ log[p][i].ok
                  /\ log[p][i].arg.thread_id = result[p].thread_id
            /\ result[p].messages = remoteThreads[result[p].thread_id]
            /\ result[p].messages # <<>>
            /\ result[p].messages[1] = [role |-> "user", content |-> args[p].user_input]
            /\ result[p].run_status =
                  (IF FinalSnapshotStatus(p) = NoAttr THEN "unknown" ELSE FinalSnapshotStatus(p))
            /\ Supplied(args[p].handle_tool_calls) =>
                  result[p].run_status \in {"completed", "failed", "cancelled", "expired"}

\* an invocation with a handler returned the result of an expired run after
\* a tool round
C25_Witness ==
    /\ pc[1] = "returned"
    /\ Supplied(args[1].handle_tool_calls)
    /\ result[1].run_status = "expired"
    /\ \E i \in Calls(1, "runs.submit_tool_outputs") : log[1][i].ok

----------------------------------------------------------------------------
(* Properties of the handler call *)

\* the pending tool-call list a snapshot carries: empty when the snapshot
\* has no required_action, submit_tool_outputs or tool_calls field
PendingOf(snapshot) ==
    IF snapshot.required_action.has THEN snapshot.required_action.tool_calls ELSE <<>>

\* C26: on a requires_action snapshot the poll loop invokes the handler
\* exactly once, with the client handle and exactly the snapshot's pending
\* tool-call list; when the snapshot carries no such field the handler is
\* still invoked, with an empty list, and the loop does not raise on the
\* missing field; a handler that returns nothing then leads to the
\* RuntimeError for missing outputs, with no submit
C26_HandlerInvokedOncePerRequiredAction ==
    \A p \in Invocations :
        /\ \A i \in Fetched(p, ActionStatus) :
              /\ i = Len(log[p]) => pc[p] = "poll_handle" /\ raised[p] = None
              /\ i < Len(log[p]) =>
                    /\ log[p][i + 1].op = "handle_tool_calls"
                    /\ log[p][i + 1].arg.handler = args[p].handle_tool_calls
                    /\ log[p][i + 1].arg.client = "open"
                    /\ log[p][i + 1].arg.tool_calls = PendingOf(log[p][i].arg.run)
              /\ i + 1 < Len(log[p]) => log[p][i + 2].op # "handle_tool_calls"
        /\ \A j \in Calls(p, "handle_tool_calls") :
              /\ j - 1 \in Fetched(p, ActionStatus)
              /\ (log[p][j].ok /\ log[p][j].arg.outputs = <<>>) =>
                    /\ raised[p] = "RuntimeError"
                    /\ \A k \in (j + 1)..Len(log[p]) : log[p][k].op = "close"

\* a requires_action snapshot without a required_action: the handler was
\* called with the empty list, returned nothing, and the invocation raised
\* RuntimeError without a submit
C26_Witness ==
    /\ pc[1] = "raised"
    /\ raised[1] = "RuntimeError"
    /\ Calls(1, "runs.submit_tool_outputs") = {}
    /\ \E i \in Fetched(1, ActionStatus) :
          /\ ~log[1][i].arg.run.required_action.has
          /\ log[1][i + 1].op = "handle_tool_calls"
          /\ log[1][i + 1].arg.tool_calls = <<>>
          /\ log[1][i + 1].arg.outputs = <<>>

====
